---------------------------- MODULE Spec2Model ----------------------------
(***************************************************************************)
(* Model of the content-fetch path of kagi-search (src/kagi-search/main.go):*)
(* the IP block policy, the URL validator, the pinned dialer and redirect  *)
(* guard installed by newSafeContentClient, and fetchPageContent with its  *)
(* two-stage extraction.                                                   *)
(*                                                                         *)
(* An IP address is a sequence of bytes as in Go's net.IP: <<>> is nil, a  *)
(* 4-byte sequence is the short IPv4 form, a 16-byte sequence is IPv6 (or  *)
(* an IPv4-mapped address).  A string is a sequence of one-character       *)
(* strings; an HTML document is a sequence of lexical tokens.              *)
(***************************************************************************)
EXTENDS Integers, Sequences, FiniteSets, TLC

(***************************************************************************)
(* Bounds of the model.                                                    *)
(***************************************************************************)
\* longest DNS answer (number of candidate addresses of one lookup)
MaxCands == 2
\* longest generated HTML document, in tokens
MaxDocLen == 3
\* largest maxChars argument tried
MaxCharsArg == 3
MaxTextLen == 4
MaxResend == 1
MaxLitRedirects == 1
\* redirects followed when the fetch is run in every proxy environment
MaxProxyHops == 1
\* redirects followed when the fetch is run against the clock
MaxTimedHops == 1
\* most results of one search
MaxResults == 2

(***************************************************************************)
(* Program constants.                                                      *)
(***************************************************************************)
\* CheckRedirect: if len(via) >= 10
MaxVia == 10
\* the LimitReader's limit on the response body, 8<<20 (line 605)
MaxBodyBytes == 8388608

nil == <<>>

(***************************************************************************)
(* net.IP helpers used by isBlockedIP (Go standard library, called on      *)
(* line 527 and 530).                                                      *)
(***************************************************************************)
\* x & 0xf0, x & 0xc0, x & 0xfe, x & 0x0f on a byte
AndF0(x) == (x \div 16) * 16
AndC0(x) == (x \div 64) * 64
AndFE(x) == (x \div 2) * 2
And0F(x) == x % 16

v4InV6Prefix == <<0, 0, 0, 0, 0, 0, 0, 0, 0, 0, 255, 255>>

\* ip.To4(): the 4-byte form of an IPv4 or IPv4-mapped address, else nil
To4(ip) ==
    IF Len(ip) = 4 THEN ip
    ELSE IF Len(ip) = 16 /\ SubSeq(ip, 1, 12) = v4InV6Prefix THEN SubSeq(ip, 13, 16)
    ELSE nil

\* ip.To16(): the 16-byte form
To16(ip) ==
    IF Len(ip) = 4 THEN v4InV6Prefix \o ip
    ELSE IF Len(ip) = 16 THEN ip
    ELSE nil

IPv6loopback == <<0, 0, 0, 0, 0, 0, 0, 0, 0, 0, 0, 0, 0, 0, 0, 1>>
IPv6unspecified == <<0, 0, 0, 0, 0, 0, 0, 0, 0, 0, 0, 0, 0, 0, 0, 0>>
IPv4zero == v4InV6Prefix \o <<0, 0, 0, 0>>

\* ip.Equal(x): equal as addresses, a 4-byte and a mapped 16-byte form agree
IPEqual(ip, x) ==
    IF Len(ip) = Len(x) THEN ip = x
    ELSE IF Len(ip) = 4 /\ Len(x) = 16 THEN SubSeq(x, 1, 12) = v4InV6Prefix /\ ip = SubSeq(x, 13, 16)
    ELSE IF Len(ip) = 16 /\ Len(x) = 4 THEN SubSeq(ip, 1, 12) = v4InV6Prefix /\ x = SubSeq(ip, 13, 16)
    ELSE FALSE

IsLoopback(ip) ==
    IF To4(ip) # nil THEN To4(ip)[1] = 127 ELSE IPEqual(ip, IPv6loopback)

IsUnspecified(ip) ==
    IPEqual(ip, IPv4zero) \/ IPEqual(ip, IPv6unspecified)

IsMulticast(ip) ==
    IF To4(ip) # nil THEN AndF0(To4(ip)[1]) = 224
    ELSE Len(ip) = 16 /\ ip[1] = 255

IsLinkLocalUnicast(ip) ==
    IF To4(ip) # nil THEN To4(ip)[1] = 169 /\ To4(ip)[2] = 254
    ELSE Len(ip) = 16 /\ ip[1] = 254 /\ AndC0(ip[2]) = 128

IsLinkLocalMulticast(ip) ==
    IF To4(ip) # nil THEN To4(ip)[1] = 224 /\ To4(ip)[2] = 0 /\ To4(ip)[3] = 0
    ELSE Len(ip) = 16 /\ ip[1] = 255 /\ And0F(ip[2]) = 2

IsPrivate(ip) ==
    IF To4(ip) # nil
    THEN \/ To4(ip)[1] = 10
         \/ (To4(ip)[1] = 172 /\ AndF0(To4(ip)[2]) = 16)
         \/ (To4(ip)[1] = 192 /\ To4(ip)[2] = 168)
    ELSE Len(ip) = 16 /\ AndFE(ip[1]) = 252

(***************************************************************************)
(* isBlockedIP (lines 523-540).                                            *)
(***************************************************************************)
\* a slip in the carrier-grade-NAT range: the upper octet bound off by one
isBlockedIPWideCGN(ip) ==
    IF ip = nil THEN TRUE
    ELSE IF IsLoopback(ip) \/ IsUnspecified(ip) \/ IsMulticast(ip)
            \/ IsLinkLocalUnicast(ip) \/ IsLinkLocalMulticast(ip) \/ IsPrivate(ip) THEN TRUE
    ELSE IF To4(ip) # nil
         THEN IF To4(ip)[1] = 0 \/ To4(ip)[1] >= 224 THEN TRUE
              ELSE To4(ip)[1] = 100 /\ To4(ip)[2] >= 64 /\ To4(ip)[2] <= 128
    ELSE FALSE

isBlockedIP(ip) ==
    IF ip = nil THEN TRUE
    ELSE IF IsLoopback(ip) \/ IsUnspecified(ip) \/ IsMulticast(ip)
            \/ IsLinkLocalUnicast(ip) \/ IsLinkLocalMulticast(ip) \/ IsPrivate(ip) THEN TRUE
    ELSE IF To4(ip) # nil
         THEN IF To4(ip)[1] = 0 \/ To4(ip)[1] >= 224 THEN TRUE
              ELSE To4(ip)[1] = 100 /\ To4(ip)[2] >= 64 /\ To4(ip)[2] <= 127
    ELSE FALSE

(***************************************************************************)
(* Addresses the policy is exercised on: every IPv4 address built from     *)
(* boundary octets, in 4-byte and in IPv4-mapped form, and IPv6 addresses  *)
(* around the boundaries of ::/128, ::1/128, fc00::/7, fe80::/10, ff00::/8.*)
(***************************************************************************)
FirstOctets == {0, 1, 9, 10, 11, 99, 100, 101, 126, 127, 128, 168, 169, 170,
                171, 172, 173, 191, 192, 193, 223, 224, 225, 239, 240, 255}
SecondOctets == {0, 1, 15, 16, 17, 31, 32, 63, 64, 65, 127, 128, 167, 168, 169,
                 253, 254, 255}
LowOctets == {0, 1, 5, 255}

V4Addrs == {<<a, b, c, d>> : a \in FirstOctets, b \in SecondOctets, c \in LowOctets, d \in LowOctets}

V6First == {0, 32, 100, 251, 252, 253, 254, 255}
V6Second == {0, 1, 2, 18, 127, 128, 191, 192, 255}
V6Addrs == {<<a, b, 0, 0, 0, 0, 0, 0, 0, 0, m, m>> \o <<c, 0, 0, d>> :
              a \in V6First, b \in V6Second, m \in {0, 255}, c \in {0, 127}, d \in {0, 1}}

PolicyInputs == {nil} \cup V4Addrs \cup {To16(a) : a \in V4Addrs} \cup V6Addrs

(***************************************************************************)
(* URLs.  A raw URL is modelled by what url.ParseRequestURI makes of it:   *)
(* wf says whether it parses, scheme is u.Scheme, and u.Hostname() is      *)
(* either a name (name # "") or the text of a literal IP address (lit, the *)
(* address bytes the text denotes; <<>> when the host is not a literal).   *)
(***************************************************************************)
URL(wf, scheme, name, lit) == [wf |-> wf, scheme |-> scheme, name |-> name, lit |-> lit]

\* u.Hostname() (line 513) / the host part of the dial address (line 450)
Hostname(u) == [name |-> u.name, lit |-> u.lit]

\* net.ParseIP (lines 455, 517): the 16-byte address of a literal, nil for
\* anything that is not the text of an IP address
ParseIP(host) == IF host.lit # nil THEN To16(host.lit) ELSE nil

\* ip.String() (lines 457, 470, 518): dotted quad for IPv4 and IPv4-mapped
\* addresses, the IPv6 text otherwise; a text is identified by the shortest
\* byte form of the address it denotes
IPString(ip) == IF To4(ip) # nil THEN To4(ip) ELSE ip

\* the address the inner net.Dialer connects to, given "ip:port" (lines 459, 479)
DialTarget(text) == To16(text)

(***************************************************************************)
(* validateRemoteFetchURL (lines 505-521): the error it returns            *)
(* ("none" for a nil error).                                               *)
(***************************************************************************)
\* the literal-IP guard written without "ip != nil": isBlockedIP(nil) is true,
\* so every host name is then rejected
validateRemoteFetchURLNoNilGuard(u) ==
    IF ~u.wf THEN "InvalidURL"
    ELSE IF u.scheme # "http" /\ u.scheme # "https" THEN "InvalidScheme"
    ELSE IF Hostname(u) = [name |-> "", lit |-> nil] THEN "MissingHost"
    ELSE IF isBlockedIP(ParseIP(Hostname(u))) THEN "BlockedIP"
    ELSE "none"

\* the validator without its block-policy check
validateRemoteFetchURLNoPolicy(u) ==
    IF ~u.wf THEN "InvalidURL"
    ELSE IF u.scheme # "http" /\ u.scheme # "https" THEN "InvalidScheme"
    ELSE IF Hostname(u) = [name |-> "", lit |-> nil] THEN "MissingHost"
    ELSE "none"

validateRemoteFetchURL(u) ==
    IF ~u.wf THEN "InvalidURL"
    ELSE IF u.scheme # "http" /\ u.scheme # "https" THEN "InvalidScheme"
    ELSE IF Hostname(u) = [name |-> "", lit |-> nil] THEN "MissingHost"
    ELSE IF ParseIP(Hostname(u)) # nil /\ isBlockedIP(ParseIP(Hostname(u))) THEN "BlockedIP"
    ELSE "none"

ValidatorErrors == {"InvalidURL", "InvalidScheme", "MissingHost", "BlockedIP"}

(***************************************************************************)
(* The URLs, addresses and DNS answers the fetch is exercised on.          *)
(***************************************************************************)
PublicV4 == <<93, 184, 216, 34>>
PublicV6 == <<38, 6>> \o <<0, 0, 0, 0, 0, 0, 0, 0, 0, 0, 0, 0, 0, 1>>
PrivateV4 == <<10, 0, 0, 5>>
MappedLoopback == To16(<<127, 0, 0, 1>>)

\* literal-IP targets the validator must refuse (spec section 8)
BlockedLiterals == {<<127, 0, 0, 1>>, <<169, 254, 1, 1>>, <<10, 0, 0, 5>>, <<192, 168, 1, 1>>,
                    <<100, 64, 0, 5>>, <<0, 0, 0, 0>>, <<224, 0, 0, 1>>, IPv6loopback}

NameURL == URL(TRUE, "http", "h", nil)
LiteralURL == URL(TRUE, "https", "", PublicV4)
MalformedURL == URL(FALSE, "", "", nil)
SchemeURL == URL(TRUE, "ftp", "h", nil)
NoHostURL == URL(TRUE, "http", "", nil)
BlockedURL(lit) == URL(TRUE, "http", "", lit)

\* targets handed to fetchPageContent
TargetURLs == {NameURL, LiteralURL, MalformedURL, SchemeURL, NoHostURL}
                \cup {BlockedURL(l) : l \in BlockedLiterals}

\* Location values of redirect responses
Locations == {NameURL, LiteralURL, MalformedURL, SchemeURL, NoHostURL,
              BlockedURL(<<127, 0, 0, 1>>), BlockedURL(<<10, 0, 0, 5>>)}

\* addresses a lookup can return, in 4-byte and 16-byte forms
DnsIPs == {PublicV4, PublicV6, PrivateV4, MappedLoopback}

RECURSIVE SeqsUpTo(_, _)
SeqsUpTo(S, n) ==
    IF n = 0 THEN {<<>>}
    ELSE LET shorter == SeqsUpTo(S, n - 1)
         IN  shorter \cup {Append(s, x) : s \in {t \in shorter : Len(t) = n - 1}, x \in S}

\* successful answers of net.DefaultResolver.LookupIPAddr: non-empty lists
DnsAnswers == SeqsUpTo(DnsIPs, MaxCands) \ {<<>>}

(***************************************************************************)
(* State.                                                                  *)
(***************************************************************************)
VARIABLES
    pc,       \* where the fetch is: "idle", "send", "resend", "connected", "resp", "body", "done"
    target,   \* fetchPageContent's targetURL argument
    req,      \* the request about to be sent (its URL)
    via,      \* client.Do's reqs: the URLs requested so far, oldest first
    hops,     \* number of redirects followed by this fetch
    sends,    \* how many times the request in hand has been written to a connection
    dial,     \* trace of the most recent DialContext call, with the outcome of each attempt
    resp,     \* the response in hand
    net,      \* whether this fetch has done a DNS lookup, a connect attempt, an HTTP request
    body,     \* htmlDoc, the bytes read from the final response
    bodyLen,  \* len(body): how many bytes io.ReadAll returned
    rd,       \* what the readability library made of htmlDoc
    maxChars, \* fetchPageContent's maxChars argument
    result,   \* what fetchPageContent returned: err, title, content
    maxCharsFlag, \* the command line's --max-chars / --max-content-chars value
    polIp,    \* block policy exercised alone: the address
    polOut,   \* ... isBlockedIP's answer
    polDone,  \* ... whether it has been asked
    trS,      \* truncateRunes exercised alone: the text
    trLimit,  \* ... the limit
    trOut,    \* ... what it returned
    trDone,   \* ... whether it has been called
    proxyEnv, \* the process environment's HTTP_PROXY and HTTPS_PROXY
    apiDial,  \* the host the API client's transport connected to, once fetchSearch has run
    timeoutSec, \* the --timeout value (a Go int), clamped once the command has read it
    timeout,  \* client.Timeout, a time.Duration in nanoseconds
    elapsed,  \* seconds since the fetch's client.Do began
    op,       \* the network operation the fetch is in: "lookup", "connect", "await", "read"
    left,     \* allowed addresses of the lookup not yet tried
    tried,    \* connection attempts started for the present DialContext call
    waiting,  \* the operation in hand waits on a peer that will never answer
    data,     \* runSearch: out.Results as built from the API's answer, before any page is fetched
    results,  \* runSearch: out.Results
    ri,       \* runSearch: the index of the content loop
    calls,    \* the links fetchPageContent has been called with by the command, oldest first
    jsonOut,  \* runContent: the --json flag
    emitted,  \* runContent: the JSON objects written to standard output
    printed,  \* runContent: the lines of text written to standard output
    cmdErr    \* runContent: the message of the error it returned (empty for nil)

vars == <<pc, target, req, via, hops, sends, dial, resp, net, body, bodyLen, rd, maxChars, result, maxCharsFlag,
          polIp, polOut, polDone, trS, trLimit, trOut, trDone, proxyEnv, apiDial,
          timeoutSec, timeout, elapsed, op, left, tried, waiting, data, results, ri, calls,
          jsonOut, emitted, printed, cmdErr>>
fetchVars == <<pc, target, req, via, hops, sends, dial, resp, net, body, bodyLen, rd, maxChars, result, maxCharsFlag>>
polVars == <<polIp, polOut, polDone>>
truncVars == <<trS, trLimit, trOut, trDone>>
envVars == <<proxyEnv, apiDial>>
timeVars == <<timeoutSec, timeout, elapsed, op, left, tried, waiting>>
searchVars == <<data, results, ri, calls>>
cmdVars == <<jsonOut, emitted, printed, cmdErr>>
pureVars == <<polVars, truncVars, envVars, timeVars, searchVars, cmdVars>>

NoHost == [name |-> "", lit |-> nil]
NoDial == [lookup |-> FALSE, answer |-> <<>>, attempts |-> <<>>, conn |-> nil, err |-> "none", errAt |-> nil,
           outcomes |-> <<>>, host |-> NoHost]
NoBody == [doc |-> <<>>, pad |-> 0]
NoResp == [status |-> 0, hasLoc |-> FALSE, loc |-> MalformedURL, body |-> NoBody, contentLength |-> 0 - 1]
NoNet == [lookup |-> FALSE, dial |-> FALSE, request |-> FALSE]
NoRd == [urlErr |-> FALSE, parseErr |-> FALSE, title |-> <<>>, renderErr |-> FALSE, text |-> <<>>]
NoResult == [err |-> "none", code |-> 0, title |-> <<>>, content |-> <<>>, truncated |-> FALSE]
\* return "", "", err
Failure(kind) == [err |-> kind, code |-> 0, title |-> <<>>, content |-> <<>>, truncated |-> FALSE]

(***************************************************************************)
(* transport.DialContext of newSafeContentClient (lines 449-489).          *)
(* host is the host of the dial address, dnsOK and answer are what         *)
(* LookupIPAddr returns if it is called, oks[i] says whether the i-th      *)
(* connect attempt of this call succeeds.  The value is the call's trace:  *)
(* whether it resolved, the addresses it tried to connect to in order, the *)
(* connection it returned, its error, and the attempt the error is from.   *)
(***************************************************************************)
\* lines 467-472: the candidates that pass the policy, as "ip" strings
AllowedOf(answer) ==
    LET keep == SelectSeq(answer, LAMBDA ip : ~isBlockedIP(ip))
    IN  [i \in 1..Len(keep) |-> IPString(keep[i])]

\* the loop that goes on after a success and returns the last connection made
DialLoopKeepGoing(allowed, oks) ==
    LET hit == {i \in 1..Len(allowed) : oks[i]}
        k == IF hit = {} THEN 0 ELSE CHOOSE i \in hit : \A j \in hit : i >= j
    IN  IF k = 0
        THEN [attempts |-> allowed, conn |-> nil, err |-> "Connect", errAt |-> allowed[Len(allowed)]]
        ELSE [attempts |-> allowed, conn |-> allowed[k], err |-> "none", errAt |-> nil]

\* the loop that keeps the first error instead of the last
DialLoopFirstError(allowed, oks) ==
    LET hit == {i \in 1..Len(allowed) : oks[i]}
        k == IF hit = {} THEN 0 ELSE CHOOSE i \in hit : \A j \in hit : i <= j
    IN  IF k = 0
        THEN [attempts |-> allowed, conn |-> nil, err |-> "Connect", errAt |-> allowed[1]]
        ELSE [attempts |-> SubSeq(allowed, 1, k), conn |-> allowed[k], err |-> "none", errAt |-> nil]

\* lines 477-487: try the allowed addresses in order, stop at the first success
DialLoop(allowed, oks) ==
    LET hit == {i \in 1..Len(allowed) : oks[i]}
        k == IF hit = {} THEN 0 ELSE CHOOSE i \in hit : \A j \in hit : i <= j
    IN  IF k = 0
        THEN [attempts |-> allowed, conn |-> nil, err |-> "Connect", errAt |-> allowed[Len(allowed)]]
        ELSE [attempts |-> SubSeq(allowed, 1, k), conn |-> allowed[k], err |-> "none", errAt |-> nil]

\* the dialer with the candidate filter left out: every resolved address is tried
DialContextNoFilter(host, dnsOK, answer, oks) ==
    IF ParseIP(host) # nil
    THEN IF isBlockedIP(ParseIP(host))
         THEN [lookup |-> FALSE, answer |-> <<>>, attempts |-> <<>>, conn |-> nil,
               err |-> "BlockedIP", errAt |-> nil]
         ELSE [lookup |-> FALSE, answer |-> <<>>] @@ DialLoop(<<IPString(ParseIP(host))>>, oks)
    ELSE IF ~dnsOK
    THEN [lookup |-> TRUE, answer |-> <<>>, attempts |-> <<>>, conn |-> nil,
          err |-> "DNS", errAt |-> nil]
    ELSE [lookup |-> TRUE, answer |-> answer]
            @@ DialLoop([i \in 1..Len(answer) |-> IPString(answer[i])], oks)

\* the dialer that checks only the first resolved address ("once per hostname")
DialContextFirstOnly(host, dnsOK, answer, oks) ==
    IF ParseIP(host) # nil
    THEN IF isBlockedIP(ParseIP(host))
         THEN [lookup |-> FALSE, answer |-> <<>>, attempts |-> <<>>, conn |-> nil,
               err |-> "BlockedIP", errAt |-> nil]
         ELSE [lookup |-> FALSE, answer |-> <<>>] @@ DialLoop(<<IPString(ParseIP(host))>>, oks)
    ELSE IF ~dnsOK
    THEN [lookup |-> TRUE, answer |-> <<>>, attempts |-> <<>>, conn |-> nil,
          err |-> "DNS", errAt |-> nil]
    ELSE IF isBlockedIP(answer[1])
    THEN [lookup |-> TRUE, answer |-> answer, attempts |-> <<>>, conn |-> nil,
          err |-> "BlockedHost", errAt |-> nil]
    ELSE [lookup |-> TRUE, answer |-> answer]
            @@ DialLoop([i \in 1..Len(answer) |-> IPString(answer[i])], oks)

DialContext(host, dnsOK, answer, oks) ==
    IF ParseIP(host) # nil
    THEN IF isBlockedIP(ParseIP(host))
         THEN [lookup |-> FALSE, answer |-> <<>>, attempts |-> <<>>, conn |-> nil,
               err |-> "BlockedIP", errAt |-> nil]
         ELSE [lookup |-> FALSE, answer |-> <<>>] @@ DialLoop(<<IPString(ParseIP(host))>>, oks)
    ELSE IF ~dnsOK
    THEN [lookup |-> TRUE, answer |-> <<>>, attempts |-> <<>>, conn |-> nil,
          err |-> "DNS", errAt |-> nil]
    ELSE IF AllowedOf(answer) = <<>>
    THEN [lookup |-> TRUE, answer |-> answer, attempts |-> <<>>, conn |-> nil,
          err |-> "BlockedHost", errAt |-> nil]
    ELSE [lookup |-> TRUE, answer |-> answer] @@ DialLoop(AllowedOf(answer), oks)

(***************************************************************************)
(* Go's int and time.Duration: 64 bits, two's complement, held as 8 bytes  *)
(* with the lowest first, so that products wrap as they do in Go.          *)
(***************************************************************************)
Int64Of(n) == [i \in 1..8 |-> IF i <= 4 THEN (n \div (256 ^ (i - 1))) % 256
                                ELSE IF n < 0 THEN 255 ELSE 0]
Zero64 == Int64Of(0)
IsNeg64(x) == x[8] >= 128

RECURSIVE ColSum(_, _, _, _)
\* the sum of the byte products of x and y that fall on byte k
ColSum(x, y, k, i) == IF i > k THEN 0 ELSE x[i] * y[k + 1 - i] + ColSum(x, y, k, i + 1)

RECURSIVE MulCols(_, _, _, _)
MulCols(x, y, k, carry) ==
    IF k > 8 THEN <<>>
    ELSE <<(carry + ColSum(x, y, k, 1)) % 256>>
           \o MulCols(x, y, k + 1, (carry + ColSum(x, y, k, 1)) \div 256)

\* x * y in 64 bits: bytes above the eighth are lost
Mul64(x, y) == MulCols(x, y, 1, 0)

RECURSIVE LessFrom(_, _, _)
LessFrom(x, y, i) ==
    IF i = 0 THEN FALSE
    ELSE IF x[i] # y[i] THEN x[i] < y[i]
    ELSE LessFrom(x, y, i - 1)

\* x < y as signed 64-bit integers
Less64(x, y) == IF IsNeg64(x) # IsNeg64(y) THEN IsNeg64(x) ELSE LessFrom(x, y, 8)

(***************************************************************************)
(* Timeouts.                                                               *)
(***************************************************************************)
\* time.Second in nanoseconds
Second == Int64Of(1000000000)
\* the defaults of --timeout (lines 127, 303) and the dialer's Timeout (line 448), in seconds
DefaultSearchTimeout == 15
DefaultContentTimeout == 20
DialerTimeout == 15

\* if timeoutSec < 1 { timeoutSec = 1 } (lines 206-208, 366-368)
clampTimeoutSec(n) == IF Less64(n, Int64Of(1)) THEN Int64Of(1) ELSE n

\* time.Duration(timeoutSec) * time.Second (lines 213, 373)
Duration(n) == Mul64(n, Second)

\* http.Client.deadline: a Timeout that is not positive means no deadline
HasDeadline(t) == ~IsNeg64(t) /\ t # Zero64

\* whether s seconds after the start is before the client's deadline t
Before(s, t) == ~HasDeadline(t) \/ Less64(Mul64(Int64Of(s), Second), t)

\* the second at which the deadline t falls
DeadlineSec(t) ==
    CHOOSE s \in 0..DefaultContentTimeout :
        /\ ~Before(s, t)
        /\ \A r \in 0..(s - 1) : Before(r, t)

(***************************************************************************)
(* The two clients and their proxy setting.  A transport whose Proxy       *)
(* function returns a proxy for a request connects to the proxy's host     *)
(* instead of the request's; with a nil Proxy it always connects to the    *)
(* request's host.  An environment is modelled by the hosts of HTTP_PROXY  *)
(* and HTTPS_PROXY (NoHost when unset).                                    *)
(***************************************************************************)
NoProxyEnv == [http |-> NoHost, https |-> NoHost]
NamedProxy == [name |-> "proxy", lit |-> nil]
LoopbackProxy == [name |-> "", lit |-> <<127, 0, 0, 1>>]

\* environments a process can be started in
ProxyEnvs == {NoProxyEnv,
              [http |-> NamedProxy, https |-> NamedProxy],
              [http |-> LoopbackProxy, https |-> NoHost],
              [http |-> NoHost, https |-> LoopbackProxy]}

\* the search endpoint (line 26)
kagiSearchURL == URL(TRUE, "https", "kagi.com", nil)

\* http.ProxyFromEnvironment (line 428): the proxy for a request by its
\* scheme; requests to a loopback address are never proxied
ProxyFromEnvironment(env, u) ==
    IF ParseIP(Hostname(u)) # nil /\ IsLoopback(ParseIP(Hostname(u))) THEN NoHost
    ELSE IF u.scheme = "https" THEN env.https
    ELSE IF u.scheme = "http" THEN env.http
    ELSE NoHost

\* newHTTPClient (lines 422-434): the API client takes its proxy from the
\* environment and dials with the default dialer
newHTTPClient == [proxy |-> "env", pinned |-> FALSE]

\* the content client left with the proxy setting of http.DefaultTransport
newSafeContentClientEnvProxy == [proxy |-> "env", pinned |-> TRUE]

\* newSafeContentClient (lines 436-503): Proxy is nil (line 445) and every
\* connection is made by the DialContext of lines 449-489
newSafeContentClient == [proxy |-> "nil", pinned |-> TRUE]

\* the host the transport of client hands to its dialer for a request to u
DialHost(client, env, u) ==
    IF client.proxy = "env" /\ ProxyFromEnvironment(env, u) # NoHost
    THEN ProxyFromEnvironment(env, u)
    ELSE Hostname(u)

(***************************************************************************)
(* The transport's kept-alive connections (client.Do, line 595; the        *)
(* transport is a clone of http.DefaultTransport, lines 438-446, which     *)
(* keeps idle connections).                                                *)
(***************************************************************************)
\* what an idle connection is filed under: scheme and host:port
ConnKey(u) == [scheme |-> u.scheme, host |-> Hostname(u)]

\* how many connections of the requests v made so far can serve u
IdleFor(u, v) == Cardinality({i \in 1..Len(v) : ConnKey(v[i]) = ConnKey(u)})

\* the transport re-sending after a failure on any connection
shouldRetryRequestAlways(reused) == TRUE

\* whether the transport sends a GET again after the connection failed
\* before any response arrived: only when the connection was a reused one
shouldRetryRequest(reused) == reused

(***************************************************************************)
(* client.CheckRedirect of newSafeContentClient (lines 495-501): the error *)
(* it returns for the next request u, given the requests made so far.      *)
(***************************************************************************)
\* the guard without the validator
CheckRedirectCountOnly(u, v) ==
    IF Len(v) >= MaxVia THEN "TooManyRedirects" ELSE "none"

\* the guard with the validator consulted first
CheckRedirectValidateFirst(u, v) ==
    IF validateRemoteFetchURL(u) # "none" THEN validateRemoteFetchURL(u)
    ELSE IF Len(v) >= MaxVia THEN "TooManyRedirects"
    ELSE "none"

CheckRedirect(u, v) ==
    IF Len(v) >= MaxVia THEN "TooManyRedirects"
    ELSE validateRemoteFetchURL(u)

(***************************************************************************)
(* Text.  An HTML document is a sequence of tokens: whole tags, whole      *)
(* comments, entities and single characters.  The regular expressions of   *)
(* lines 83-88 act on whole tokens.                                        *)
(***************************************************************************)
NoiseOpen == {"<script>", "<svg>"}
NoiseClose == {"</script>", "</svg>"}
BlockTags == {"<p>", "</p>"}
OtherTags == {"<title>", "</title>", "<html>", "</html>", "<b>"}
Tags == NoiseOpen \cup NoiseClose \cup BlockTags \cup OtherTags
Comments == {"<!--c-->"}
NBSP == "U+00A0"
\* unicode.IsSpace, as strings.TrimSpace and strings.Fields use it
WhiteSpace == {" ", "\t", "\n", "\r", NBSP}

\* strings.TrimSpace
RECURSIVE TrimLeft(_)
TrimLeft(s) == IF s # <<>> /\ s[1] \in WhiteSpace THEN TrimLeft(Tail(s)) ELSE s
RECURSIVE TrimRight(_)
TrimRight(s) ==
    IF s # <<>> /\ s[Len(s)] \in WhiteSpace THEN TrimRight(SubSeq(s, 1, Len(s) - 1)) ELSE s
TrimSpace(s) == TrimRight(TrimLeft(s))

\* cleanLine (lines 688-691): the fields of s joined by single spaces
RECURSIVE JoinFields(_, _)
JoinFields(s, pending) ==
    IF s = <<>> THEN <<>>
    ELSE IF s[1] \in WhiteSpace THEN JoinFields(Tail(s), TRUE)
    ELSE (IF pending THEN <<" ">> ELSE <<>>) \o <<s[1]>> \o JoinFields(Tail(s), FALSE)
cleanLine(s) == JoinFields(TrimSpace(s), FALSE)

\* reComments.ReplaceAllString(htmlDoc, " ") (line 662)
StripComments(s) == [i \in 1..Len(s) |-> IF s[i] \in Comments THEN " " ELSE s[i]]

\* reNoise.ReplaceAllString(s, "\n") (line 663): from a noise element's opening
\* tag to the nearest closing tag of a noise element, leftmost first
RECURSIVE StripNoise(_)
StripNoise(s) ==
    LET opens == {i \in 1..Len(s) : s[i] \in NoiseOpen}
        i == CHOOSE x \in opens : \A y \in opens : x <= y
        closes == {j \in 1..Len(s) : j > i /\ s[j] \in NoiseClose}
        j == CHOOSE x \in closes : \A y \in closes : x <= y
    IN  IF opens = {} THEN s
        ELSE IF closes = {} THEN s
        ELSE SubSeq(s, 1, i - 1) \o <<"\n">> \o StripNoise(SubSeq(s, j + 1, Len(s)))

\* reBlocks.ReplaceAllString(s, "\n") (line 664)
BreakBlocks(s) == [i \in 1..Len(s) |-> IF s[i] \in BlockTags THEN "\n" ELSE s[i]]

\* reTags.ReplaceAllString(s, " ") (line 665)
StripTags(s) == [i \in 1..Len(s) |-> IF s[i] \in Tags THEN " " ELSE s[i]]

\* html.UnescapeString (line 666)
Unescape(s) ==
    [i \in 1..Len(s) |-> IF s[i] \in {"&nbsp;", "&nbsp"} THEN NBSP
                         ELSE IF s[i] \in {"&amp;", "&amp"} THEN "&"
                         ELSE s[i]]

\* strings.ReplaceAll(s, "\r", "") (line 667)
DropCR(s) == SelectSeq(s, LAMBDA t : t # "\r")

\* strings.Split(s, "\n") (line 669)
RECURSIVE SplitLines(_, _)
SplitLines(s, cur) ==
    IF s = <<>> THEN <<cur>>
    ELSE IF s[1] = "\n" THEN <<cur>> \o SplitLines(Tail(s), <<>>)
    ELSE SplitLines(Tail(s), Append(cur, s[1]))

\* strings.Join(cleaned, "\n\n") (line 683)
RECURSIVE JoinLines(_)
JoinLines(ls) ==
    IF ls = <<>> THEN <<>>
    ELSE IF Len(ls) = 1 THEN ls[1]
    ELSE ls[1] \o <<"\n", "\n">> \o JoinLines(Tail(ls))

\* reMultiNL.ReplaceAllString(joined, "\n\n") (line 684)
RECURSIVE CollapseNL(_, _)
CollapseNL(s, run) ==
    IF s = <<>> THEN <<>>
    ELSE IF s[1] = "\n" THEN (IF run >= 2 THEN <<>> ELSE <<"\n">>) \o CollapseNL(Tail(s), run + 1)
    ELSE <<s[1]>> \o CollapseNL(Tail(s), 0)

\* extractReadableText (lines 661-686)
extractReadableText(htmlDoc) ==
    LET s == DropCR(Unescape(StripTags(BreakBlocks(StripNoise(StripComments(htmlDoc))))))
        split == SplitLines(s, <<>>)
        lines == [i \in 1..Len(split) |-> cleanLine(split[i])]
        cleaned == SelectSeq(lines, LAMBDA l : l # <<>>)
    IN  IF cleaned = <<>> THEN <<>>
        ELSE TrimSpace(CollapseNL(JoinLines(cleaned), 0))

\* extractTitle (lines 652-659): the text between the first <title> and the
\* nearest </title> after it, cleaned
extractTitle(htmlDoc) ==
    LET opens == {i \in 1..Len(htmlDoc) : htmlDoc[i] = "<title>"}
        ok == {i \in opens : \E j \in (i + 1)..Len(htmlDoc) : htmlDoc[j] = "</title>"}
        i == CHOOSE x \in ok : \A y \in ok : x <= y
        closes == {j \in (i + 1)..Len(htmlDoc) : htmlDoc[j] = "</title>"}
        j == CHOOSE x \in closes : \A y \in closes : x <= y
    IN  IF ok = {} THEN <<>> ELSE cleanLine(SubSeq(htmlDoc, i + 1, j - 1))

\* tryReadability (lines 632-650).  lib is what url.Parse and the readability
\* library do: whether url.Parse fails, whether FromReader fails,
\* article.Title(), whether RenderText fails, and the text it has written to
\* the builder (all of it, or what it wrote before failing).
tryReadability(htmlDoc, lib) ==
    IF lib.urlErr THEN [title |-> <<>>, content |-> <<>>]
    ELSE IF lib.parseErr THEN [title |-> <<>>, content |-> <<>>]
    ELSE IF lib.renderErr THEN [title |-> cleanLine(lib.title), content |-> <<>>]
    ELSE [title |-> cleanLine(lib.title), content |-> TrimSpace(lib.text)]

\* UTF-8.  A string is a sequence of bytes; a token that is not one of the
\* bytes below is a complete character.  A rune is identified by the bytes
\* of its UTF-8 encoding.
Lead2 == {"\\xc2", "\\xc3"}
Lead3 == {"\\xef"}
Cont == {"\\xa0", "\\xa9", "\\xbf", "\\xbd"}
BadBytes == {"\\xff"}
\* utf8.RuneError, U+FFFD
RuneError == <<"\\xef", "\\xbf", "\\xbd">>

\* the first rune of a non-empty string and its width in bytes: a lead byte
\* with its continuation bytes is one rune, a byte that starts no valid
\* encoding decodes to U+FFFD with width 1
DecodeRune(s) ==
    IF s[1] \in Lead2 /\ Len(s) >= 2 /\ s[2] \in Cont
    THEN [r |-> SubSeq(s, 1, 2), w |-> 2]
    ELSE IF s[1] \in Lead3 /\ Len(s) >= 3 /\ s[2] \in Cont /\ s[3] \in Cont
    THEN [r |-> SubSeq(s, 1, 3), w |-> 3]
    ELSE IF s[1] \in Lead2 \cup Lead3 \cup Cont \cup BadBytes
    THEN [r |-> RuneError, w |-> 1]
    ELSE [r |-> <<s[1]>>, w |-> 1]

\* []rune(s) (line 697)
RECURSIVE Runes(_)
Runes(s) ==
    IF s = <<>> THEN <<>>
    ELSE <<DecodeRune(s).r>> \o Runes(SubSeq(s, DecodeRune(s).w + 1, Len(s)))

\* string(r) (line 701): the encodings of the runes, concatenated
RECURSIVE StringOfRunes(_)
StringOfRunes(r) == IF r = <<>> THEN <<>> ELSE r[1] \o StringOfRunes(Tail(r))

\* truncation that treats a limit of 0 as "no limit" inside the function
truncateRunesZeroIsNoLimit(s, limit) ==
    IF limit < 0 THEN <<>>
    ELSE IF limit = 0 THEN s
    ELSE IF Len(Runes(s)) <= limit THEN s
    ELSE StringOfRunes(SubSeq(Runes(s), 1, limit))

\* truncation that counts bytes: s[:limit]
truncateRunesByBytes(s, limit) ==
    IF limit <= 0 THEN <<>>
    ELSE IF Len(s) <= limit THEN s
    ELSE SubSeq(s, 1, limit)

\* truncateRunes (lines 693-702)
truncateRunes(s, limit) ==
    IF limit <= 0 THEN <<>>
    ELSE IF Len(Runes(s)) <= limit THEN s
    ELSE StringOfRunes(SubSeq(Runes(s), 1, limit))

(***************************************************************************)
(* fetchPageContent from htmlDoc on (lines 610-627): what it returns.      *)
(* truncated records whether truncateRunes was called.                     *)
(***************************************************************************)
(***************************************************************************)
(* The response body (lines 605-610).  A body is a document followed by    *)
(* pad bytes of trailing spaces, which no regular expression of lines      *)
(* 83-88 matches and every trim removes; lengths are in bytes.             *)
(***************************************************************************)
\* the characters of the tokens that are longer than one byte
Spelling(tok) ==
    CASE tok = "<script>" -> <<"<", "s", "c", "r", "i", "p", "t", ">">>
      [] tok = "</script>" -> <<"<", "/", "s", "c", "r", "i", "p", "t", ">">>
      [] tok = "<svg>" -> <<"<", "s", "v", "g", ">">>
      [] tok = "</svg>" -> <<"<", "/", "s", "v", "g", ">">>
      [] tok = "<p>" -> <<"<", "p", ">">>
      [] tok = "</p>" -> <<"<", "/", "p", ">">>
      [] tok = "<title>" -> <<"<", "t", "i", "t", "l", "e", ">">>
      [] tok = "</title>" -> <<"<", "/", "t", "i", "t", "l", "e", ">">>
      [] tok = "<html>" -> <<"<", "h", "t", "m", "l", ">">>
      [] tok = "</html>" -> <<"<", "/", "h", "t", "m", "l", ">">>
      [] tok = "<b>" -> <<"<", "b", ">">>
      [] tok = "<!--c-->" -> <<"<", "!", "-", "-", "c", "-", "-", ">">>
      [] tok = "&nbsp;" -> <<"&", "n", "b", "s", "p", ";">>
      [] tok = "&nbsp" -> <<"&", "n", "b", "s", "p">>
      [] tok = "&amp;" -> <<"&", "a", "m", "p", ";">>
      [] tok = "&amp" -> <<"&", "a", "m", "p">>
      [] tok = NBSP -> <<"\\xc2", "\\xa0">>
      [] OTHER -> <<tok>>

RECURSIVE ByteLen(_)
ByteLen(doc) == IF doc = <<>> THEN 0 ELSE Len(Spelling(doc[1])) + ByteLen(Tail(doc))

\* the first n bytes of a token that is longer: an entity name is complete
\* without its semicolon, anything else is left as plain characters
Partial(tok, n) ==
    IF tok = "&amp;" /\ n = 4 THEN <<"&amp">>
    ELSE IF tok = "&nbsp;" /\ n = 5 THEN <<"&nbsp">>
    ELSE SubSeq(Spelling(tok), 1, n)

\* the first n bytes of a document
RECURSIVE BytePrefix(_, _)
BytePrefix(doc, n) ==
    IF doc = <<>> \/ n <= 0 THEN <<>>
    ELSE IF Len(Spelling(doc[1])) <= n
    THEN <<doc[1]>> \o BytePrefix(Tail(doc), n - Len(Spelling(doc[1])))
    ELSE Partial(doc[1], n)

StreamLen(st) == ByteLen(st.doc) + st.pad

\* the first n bytes of a body (all of it when it is not longer)
TakeBytes(st, n) ==
    IF n >= StreamLen(st) THEN st
    ELSE IF n >= ByteLen(st.doc) THEN [doc |-> st.doc, pad |-> n - ByteLen(st.doc)]
    ELSE [doc |-> BytePrefix(st.doc, n), pad |-> 0]

\* what resp.Body yields: with a Content-Length the transport hands out no
\* more than that many bytes of what the server sends
BodyOf(r) == IF r.contentLength >= 0 THEN TakeBytes(r.body, r.contentLength) ELSE r.body

\* the server sends less than it declared: a read that gets to the end of
\* the body fails with io.ErrUnexpectedEOF
ShortBody(r) == r.contentLength > StreamLen(r.body)

\* the read limited by the declared length instead of the fixed ceiling
ReadAllDeclared(r, n) ==
    IF r.contentLength >= 0 THEN TakeBytes(BodyOf(r), r.contentLength) ELSE BodyOf(r)

\* io.ReadAll(io.LimitReader(resp.Body, n)) (line 605), when no read fails
ReadAllLimited(r, n) == TakeBytes(BodyOf(r), n)

\* string(body) (line 610) as the tokens extraction works on
HtmlDoc(st) == st.doc \o (IF st.pad > 0 THEN <<" ">> ELSE <<>>)

\* runContent (lines 369-371) and runSearch (lines 209-211): the maxChars
\* argument they pass for a flag value
clampMaxChars(n) == IF n < 0 THEN 0 ELSE n

\* line 602's test: the status is outside 200..299
statusFailedFrom400(code) == code < 200 \/ code >= 400

statusFailed(code) == code < 200 \/ code >= 300

\* truncateRunes called whatever the limit is
fetchPageContentTailAlwaysTruncate(htmlDoc, lib, limit) ==
    LET r == tryReadability(htmlDoc, lib)
        title == IF r.title = <<>> THEN extractTitle(htmlDoc) ELSE r.title
        content == IF r.content = <<>> THEN extractReadableText(htmlDoc) ELSE r.content
    IN  IF TrimSpace(content) = <<>>
        THEN [err |-> "Extraction", code |-> 0, title |-> title, content |-> <<>>, truncated |-> FALSE]
        ELSE [err |-> "none", code |-> 0, title |-> title,
              content |-> truncateRunes(content, limit), truncated |-> TRUE]

\* the title taken from the strategy that supplied the content
fetchPageContentTailCoupled(htmlDoc, lib, limit) ==
    LET r == tryReadability(htmlDoc, lib)
        title == IF r.title = <<>> \/ r.content = <<>> THEN extractTitle(htmlDoc) ELSE r.title
        content == IF r.content = <<>> THEN extractReadableText(htmlDoc) ELSE r.content
    IN  IF TrimSpace(content) = <<>>
        THEN [err |-> "Extraction", code |-> 0, title |-> title, content |-> <<>>, truncated |-> FALSE]
        ELSE [err |-> "none", code |-> 0, title |-> title,
              content |-> IF limit > 0 THEN truncateRunes(content, limit) ELSE content,
              truncated |-> limit > 0]

\* a failure inside the readability strategy returned as the fetch's error
fetchPageContentTailPropagate(htmlDoc, lib, limit) ==
    LET r == tryReadability(htmlDoc, lib)
        title == IF r.title = <<>> THEN extractTitle(htmlDoc) ELSE r.title
        content == IF r.content = <<>> THEN extractReadableText(htmlDoc) ELSE r.content
    IN  IF lib.urlErr \/ lib.parseErr \/ lib.renderErr
        THEN [err |-> "Readability", code |-> 0, title |-> <<>>, content |-> <<>>, truncated |-> FALSE]
        ELSE IF TrimSpace(content) = <<>>
        THEN [err |-> "Extraction", code |-> 0, title |-> title, content |-> <<>>, truncated |-> FALSE]
        ELSE [err |-> "none", code |-> 0, title |-> title,
              content |-> IF limit > 0 THEN truncateRunes(content, limit) ELSE content,
              truncated |-> limit > 0]

\* the empty-content check left out
fetchPageContentTailNoCheck(htmlDoc, lib, limit) ==
    LET r == tryReadability(htmlDoc, lib)
        title == IF r.title = <<>> THEN extractTitle(htmlDoc) ELSE r.title
        content == IF r.content = <<>> THEN extractReadableText(htmlDoc) ELSE r.content
    IN  [err |-> "none", code |-> 0, title |-> title,
         content |-> IF limit > 0 THEN truncateRunes(content, limit) ELSE content,
         truncated |-> limit > 0]

fetchPageContentTail(htmlDoc, lib, limit) ==
    LET r == tryReadability(htmlDoc, lib)
        title == IF r.title = <<>> THEN extractTitle(htmlDoc) ELSE r.title
        content == IF r.content = <<>> THEN extractReadableText(htmlDoc) ELSE r.content
    IN  IF TrimSpace(content) = <<>>
        THEN [err |-> "Extraction", code |-> 0, title |-> title, content |-> <<>>, truncated |-> FALSE]
        ELSE [err |-> "none", code |-> 0, title |-> title,
              content |-> IF limit > 0 THEN truncateRunes(content, limit) ELSE content,
              truncated |-> limit > 0]

(***************************************************************************)
(* Documents and library outcomes the extraction is exercised on.          *)
(***************************************************************************)
DocTokens == {"<script>", "</script>", "<title>", "</title>", "<p>", "a", " "}

\* the benign document of spec section 8
BenignDoc == <<"<html>", "<title>", "F", "</title>", "<p>", "H", " ", "w", "</p>", "</html>">>
\* a document of script and whitespace only
ScriptOnlyDoc == <<" ", "<script>", "a", "</script>", "\n", " ">>
\* a title only inside an element the fallback strips
SvgTitleDoc == <<"<svg>", "<title>", "I", "</title>", "</svg>", "<script>", "a", "</script>">>
EntityDoc == <<"<!--c-->", "&nbsp;", "\r", "<b>", "a", "&amp;", "\n", "\n", "\n", "\n", "a">>

SampleDocs == {<<>>, BenignDoc, ScriptOnlyDoc, SvgTitleDoc, EntityDoc}
Docs == SeqsUpTo(DocTokens, MaxDocLen) \cup SampleDocs

LibTitles == {<<>>, <<"T", " ", " ", "t">>}
LibTexts == {<<>>, <<" ", "\n">>, <<" ", "b", "\\xff", "\n", "c", " ">>}
\* what RenderText had written when it failed
PartialTexts == {<<>>, <<" ", "b">>}
ReadabilityOutcomes ==
    {[urlErr |-> TRUE, parseErr |-> FALSE, title |-> <<>>, renderErr |-> FALSE, text |-> <<>>],
     [urlErr |-> FALSE, parseErr |-> TRUE, title |-> <<>>, renderErr |-> FALSE, text |-> <<>>]}
      \cup {[urlErr |-> FALSE, parseErr |-> FALSE, title |-> t, renderErr |-> TRUE, text |-> x] :
              t \in LibTitles, x \in PartialTexts}
      \cup {[urlErr |-> FALSE, parseErr |-> FALSE, title |-> t, renderErr |-> FALSE, text |-> x] :
              t \in LibTitles, x \in LibTexts}

\* what the network does during one DialContext call: no lookup happens for
\* a literal host; a lookup fails or returns an answer; every connect
\* attempt succeeds or fails
DialInputs(host) ==
    IF ParseIP(host) # nil
    THEN {[dnsOK |-> TRUE, answer |-> <<>>, oks |-> o] : o \in [1..1 -> BOOLEAN]}
    ELSE {[dnsOK |-> FALSE, answer |-> <<>>, oks |-> <<>>]}
           \cup UNION {{[dnsOK |-> TRUE, answer |-> a, oks |-> o] : o \in [1..Len(a) -> BOOLEAN]} :
                         a \in DnsAnswers}

\* status codes of final and intermediate responses
Statuses == {101, 200, 299, 300, 302, 404}
\* flag values of the command line
MaxCharsFlags == (0 - 1)..MaxCharsArg
RedirectStatuses == {301, 302, 303, 307, 308}
IsRedirect(r) == r.status \in RedirectStatuses /\ r.hasLoc
\* a response: its status and, on a redirect status, its Location header if any
\* bodies a server sends and the Content-Length it declares (-1: none): the
\* sample documents, and one that runs past the ceiling
Bodies ==
    {[body |-> [doc |-> d, pad |-> 0], contentLength |-> 0 - 1] : d \in SampleDocs}
      \cup {[body |-> [doc |-> BenignDoc, pad |-> MaxBodyBytes], contentLength |-> c] :
              c \in {0 - 1, ByteLen(BenignDoc) + MaxBodyBytes}}
\* only the body of a final 2xx response is ever read
Responses ==
    {[status |-> st, hasLoc |-> FALSE, loc |-> MalformedURL,
      body |-> b.body, contentLength |-> b.contentLength] :
        st \in {x \in Statuses : ~statusFailed(x)}, b \in Bodies}
      \cup {[status |-> st, hasLoc |-> FALSE, loc |-> MalformedURL,
              body |-> NoBody, contentLength |-> 0 - 1] : st \in {x \in Statuses : statusFailed(x)}}
      \cup {[status |-> st, hasLoc |-> TRUE, loc |-> l, body |-> NoBody, contentLength |-> 0 - 1] :
              st \in Statuses \cap RedirectStatuses, l \in Locations}

(***************************************************************************)
(* Actions.                                                                *)
(***************************************************************************)
TypeDefaults ==
    /\ target = MalformedURL
    /\ req = MalformedURL
    /\ via = <<>>
    /\ hops = 0
    /\ sends = 0
    /\ dial = NoDial
    /\ resp = NoResp
    /\ net = NoNet
    /\ body = <<>>
    /\ bodyLen = 0
    /\ rd = NoRd
    /\ maxChars = 0
    /\ result = NoResult
    /\ maxCharsFlag = 0

TruncDefaults == trS = <<>> /\ trLimit = 0 /\ trOut = <<>> /\ trDone = FALSE

\* no proxy variable is set and the search API has not been called
EnvDefaults == proxyEnv = NoProxyEnv /\ apiDial = NoHost

\* nothing written and nothing returned by the command
CmdDefaults == jsonOut = FALSE /\ emitted = <<>> /\ printed = <<>> /\ cmdErr = <<>>

\* the content command's default timeout, the clock not started; no search
TimeDefaults ==
    /\ data = <<>> /\ results = <<>> /\ ri = 1 /\ calls = <<>>
    /\ CmdDefaults
    /\ timeoutSec = Int64Of(DefaultContentTimeout)
    /\ timeout = Duration(Int64Of(DefaultContentTimeout))
    /\ elapsed = 0
    /\ op = "none"
    /\ left = 0
    /\ tried = 0
    /\ waiting = FALSE

Init ==
    /\ pc = "idle"
    /\ TypeDefaults
    /\ polIp = nil /\ polOut = FALSE /\ polDone = FALSE
    /\ TruncDefaults
    /\ EnvDefaults
    /\ TimeDefaults

\* fetchPageContent is called (lines 581-593): the target is validated and
\* the request built; nothing touches the network before validation passes
Start ==
    /\ pc = "idle"
    /\ \E u \in TargetURLs :
         /\ target' = u
         /\ IF validateRemoteFetchURL(u) # "none"
            THEN /\ pc' = "done"
                 /\ result' = Failure(validateRemoteFetchURL(u))
                 /\ req' = req
            ELSE /\ pc' = "send"
                 /\ req' = u
                 /\ result' = result
    /\ UNCHANGED <<via, hops, sends, dial, resp, net, body, bodyLen, rd, maxChars, maxCharsFlag, pureVars>>

\* the requests made before the one in hand
Earlier == IF pc = "resend" THEN SubSeq(via, 1, Len(via) - 1) ELSE via

\* the client sends req (client.Do, line 595): it joins reqs and the
\* transport, having no idle connection for it, calls DialContext for its host
Dial ==
    /\ pc \in {"send", "resend"}
    /\ \E in \in DialInputs(DialHost(newSafeContentClient, proxyEnv, req)) :
         LET host == DialHost(newSafeContentClient, proxyEnv, req)
             d == DialContext(host, in.dnsOK, in.answer, in.oks)
         IN  /\ dial' = d @@ [outcomes |-> SubSeq(in.oks, 1, Len(d.attempts)), host |-> host]
             /\ net' = [net EXCEPT !.lookup = @ \/ d.lookup, !.dial = @ \/ d.attempts # <<>>]
             /\ IF d.err = "none"
                THEN /\ pc' = "connected"
                     /\ via' = IF pc = "send" THEN Append(via, req) ELSE via
                     /\ result' = result
                ELSE /\ pc' = "done"
                     /\ via' = <<>>
                     /\ result' = Failure(d.err)
    /\ UNCHANGED <<target, req, hops, sends, resp, body, bodyLen, rd, maxChars, maxCharsFlag, pureVars>>

\* the client sends req and the transport has an idle connection for its
\* scheme and host, opened for an earlier request of this fetch and kept
\* alive: the request goes on it and DialContext is not called.  A request
\* being re-sent can take one only while there are others left.
Reuse ==
    /\ pc \in {"send", "resend"}
    /\ sends < IdleFor(req, Earlier)
    /\ pc' = "connected"
    /\ via' = IF pc = "send" THEN Append(via, req) ELSE via
    /\ UNCHANGED <<target, req, hops, sends, dial, resp, net, body, bodyLen, rd, maxChars, result,
                   maxCharsFlag, pureVars>>

\* the request was written to a reused connection that the server had closed:
\* the transport sends it again on another connection, and client.Do does
\* not see the failure
StaleRetry ==
    /\ pc = "connected"
    /\ shouldRetryRequest(dial.conn = nil)
    /\ sends < MaxResend
    /\ pc' = "resend"
    /\ sends' = sends + 1
    /\ dial' = NoDial
    /\ net' = [net EXCEPT !.request = TRUE]
    /\ UNCHANGED <<target, req, via, hops, resp, body, bodyLen, rd, maxChars, result,
                   maxCharsFlag, pureVars>>

\* the request goes out on the connection and the exchange fails
TransportError ==
    /\ pc = "connected"
    /\ pc' = "done"
    /\ sends' = sends + 1
    /\ net' = [net EXCEPT !.request = TRUE]
    /\ via' = <<>>
    /\ result' = Failure("Transport")
    /\ UNCHANGED <<target, req, hops, dial, resp, body, bodyLen, rd, maxChars, maxCharsFlag, pureVars>>

\* how many redirects of the chain so far led to the literal-IP URL
LitRedirects == Cardinality({i \in 2..Len(via) : via[i] = LiteralURL})

\* the request goes out on the connection and the server answers; a chain
\* is sent to the literal-IP URL MaxLitRedirects times at most
Response ==
    /\ pc = "connected"
    /\ \E r \in Responses :
         /\ (r.hasLoc /\ r.loc = LiteralURL) => LitRedirects < MaxLitRedirects
         /\ resp' = r
    /\ pc' = "resp"
    /\ sends' = sends + 1
    /\ net' = [net EXCEPT !.request = TRUE]
    /\ dial' = NoDial
    /\ UNCHANGED <<target, req, via, hops, body, bodyLen, rd, maxChars, result, maxCharsFlag, pureVars>>

\* client.Do handles a redirect response: it resolves the Location header,
\* builds the next request and asks CheckRedirect (lines 495-501); an error
\* ends client.Do (line 596)
Redirect ==
    /\ pc = "resp"
    /\ IsRedirect(resp)
    /\ IF ~resp.loc.wf
       THEN /\ pc' = "done"
            /\ result' = Failure("LocationParse")
            /\ UNCHANGED <<req, hops, sends>>
            /\ via' = <<>>
       ELSE IF CheckRedirect(resp.loc, via) # "none"
       THEN /\ pc' = "done"
            /\ result' = Failure(CheckRedirect(resp.loc, via))
            /\ UNCHANGED <<req, hops, sends>>
            /\ via' = <<>>
       ELSE /\ pc' = "send"
            /\ req' = resp.loc
            /\ hops' = hops + 1
            /\ sends' = 0
            /\ UNCHANGED <<result, via>>
    /\ resp' = IF pc' = "send" THEN NoResp ELSE resp
    /\ UNCHANGED <<target, dial, net, body, bodyLen, rd, maxChars, maxCharsFlag, pureVars>>

\* client.Do returned a response outside 200..299 (lines 601-603)
StatusError ==
    /\ pc = "resp"
    /\ ~IsRedirect(resp)
    /\ statusFailed(resp.status)
    /\ pc' = "done"
    /\ via' = <<>>
    /\ result' = [Failure("HTTPStatus") EXCEPT !.code = resp.status]
    /\ UNCHANGED <<target, req, hops, sends, dial, resp, net, body, bodyLen, rd, maxChars, maxCharsFlag, pureVars>>

\* client.Do returned a 2xx response and its body is read (lines 605-610)
ReadBody ==
    /\ pc = "resp"
    /\ ~IsRedirect(resp)
    /\ ~statusFailed(resp.status)
    /\ via' = <<>>
    /\ \E ok \in BOOLEAN :
         IF ok /\ ~(ShortBody(resp) /\ StreamLen(resp.body) < MaxBodyBytes)
         THEN /\ pc' = "body"
              /\ body' = HtmlDoc(ReadAllLimited(resp, MaxBodyBytes))
              /\ bodyLen' = StreamLen(ReadAllLimited(resp, MaxBodyBytes))
              /\ result' = result
         ELSE /\ pc' = "done"
              /\ UNCHANGED <<body, bodyLen>>
              /\ result' = Failure("BodyRead")
    /\ UNCHANGED <<target, req, hops, sends, dial, resp, net, rd, maxChars, maxCharsFlag, pureVars>>

\* extraction and truncation (lines 610-627).  maxChars is read only on
\* line 624, so the flag and the argument the caller makes of it are drawn here.
Extract ==
    /\ pc = "body"
    /\ \E lib \in ReadabilityOutcomes, flag \in MaxCharsFlags :
         /\ rd' = lib
         /\ maxCharsFlag' = flag
         /\ maxChars' = clampMaxChars(flag)
         /\ result' = fetchPageContentTail(body, lib, clampMaxChars(flag))
    /\ pc' = "done"
    /\ UNCHANGED <<target, req, via, hops, sends, dial, resp, net, body, bodyLen, pureVars>>

Next ==
    \/ Start
    \/ Dial
    \/ Reuse
    \/ StaleRetry
    \/ TransportError
    \/ Response
    \/ Redirect
    \/ StatusError
    \/ ReadBody
    \/ Extract

\* one fetchPageContent call over an arbitrary network
Spec == Init /\ [][Next]_vars

(***************************************************************************)
(* A search run in every proxy environment: runSearch calls fetchSearch    *)
(* with the API client (lines 213-214) and then fetches result pages with  *)
(* the content client (lines 241-245); the page fetch is followed through  *)
(* its connections and redirects.                                          *)
(***************************************************************************)
InitProxy ==
    /\ pc = "idle"
    /\ TypeDefaults
    /\ polIp = nil /\ polOut = FALSE /\ polDone = FALSE
    /\ TruncDefaults
    /\ proxyEnv \in ProxyEnvs
    /\ apiDial = NoHost
    /\ TimeDefaults

\* fetchSearch's client.Do (line 555): the API client's transport connects
\* for the search request
fetchSearch ==
    /\ pc = "idle"
    /\ apiDial = NoHost
    /\ apiDial' = DialHost(newHTTPClient, proxyEnv, kagiSearchURL)
    /\ UNCHANGED <<fetchVars, polVars, truncVars, proxyEnv, timeVars, searchVars, cmdVars>>

\* the redirects of the page fetch, up to MaxProxyHops of them
RedirectProxy == hops < MaxProxyHops /\ Redirect

SpecProxy == InitProxy /\ [][fetchSearch \/ Start \/ Dial \/ Response \/ RedirectProxy]_vars

(***************************************************************************)
(* One page fetch against the clock: the command clamps --timeout and      *)
(* builds the client (lines 206-213 and 241, or 366-373), and client.Do    *)
(* (line 595) and the body read (line 605) run under the client's          *)
(* deadline, if it has one.  A network operation ends at once, after a     *)
(* second, or never by itself; a connection attempt is also ended by the   *)
(* dialer's own Timeout (line 448).  Addresses are left out: a lookup      *)
(* yields a number of allowed candidates.                                  *)
(***************************************************************************)
\* --timeout 9223372037: the smallest number of seconds whose nanoseconds
\* exceed 2^63 - 1
HugeTimeout == <<5, 125, 193, 37, 2, 0, 0, 0>>

\* values of timeoutSec when the command has parsed its flags (strconv.Atoi
\* accepts any int): below 1, the least, the two defaults, a huge one
TimeoutFlags == {Int64Of(0 - 1), Int64Of(0), Int64Of(1), Int64Of(DefaultSearchTimeout),
                 Int64Of(DefaultContentTimeout), HugeTimeout}

\* seconds a network operation that ends takes
StepTimes == {0, 1}

InitTimeout ==
    /\ pc = "new"
    /\ TypeDefaults
    /\ polIp = nil /\ polOut = FALSE /\ polDone = FALSE
    /\ TruncDefaults
    /\ EnvDefaults
    /\ data = <<>> /\ results = <<>> /\ ri = 1 /\ calls = <<>>
    /\ CmdDefaults
    /\ timeoutSec \in TimeoutFlags
    /\ timeout = Zero64
    /\ elapsed = 0
    /\ op = "none"
    /\ left = 0
    /\ tried = 0
    /\ waiting = FALSE

\* what every step of the timed fetch leaves alone
TimedFrame == UNCHANGED <<target, req, via, sends, dial, resp, net, body, bodyLen, rd, maxChars, maxCharsFlag,
                          polVars, truncVars, envVars, searchVars, cmdVars>>

\* client.Do or the body read ended by the deadline
TimedOut ==
    /\ pc' = "done"
    /\ result' = Failure("Timeout")
    /\ elapsed' = DeadlineSec(timeout)
    /\ waiting' = FALSE

\* the fetch ended for another reason, at second s
EndedAt(s, r) ==
    /\ pc' = "done"
    /\ result' = r
    /\ elapsed' = s
    /\ waiting' = FALSE

\* the clamp and the client's construction (lines 206-213, 241; 366-373);
\* the fetch begins with the lookup of the target's host
SetTimeout ==
    /\ pc = "new"
    /\ timeoutSec' = clampTimeoutSec(timeoutSec)
    /\ timeout' = Duration(clampTimeoutSec(timeoutSec))
    /\ pc' = "run"
    /\ op' = "lookup"
    /\ UNCHANGED <<hops, result, elapsed, left, tried, waiting>>
    /\ TimedFrame

\* LookupIPAddr under the request's context (lines 462-465) and the filter
\* (lines 467-475): n addresses are allowed.  A lookup that gets no answer
\* lasts until the deadline; without one the resolver gives up by itself.
Lookup ==
    /\ pc = "run" /\ op = "lookup" /\ ~waiting
    /\ \E out \in {"answer", "error", "silent"}, d \in StepTimes, n \in 0..MaxCands :
         IF out = "silent"
         THEN IF HasDeadline(timeout)
              THEN TimedOut /\ UNCHANGED <<op, left, tried>>
              ELSE EndedAt(elapsed, Failure("DNS")) /\ UNCHANGED <<op, left, tried>>
         ELSE IF ~Before(elapsed + d, timeout)
         THEN TimedOut /\ UNCHANGED <<op, left, tried>>
         ELSE IF out = "error"
         THEN EndedAt(elapsed + d, Failure("DNS")) /\ UNCHANGED <<op, left, tried>>
         ELSE IF n = 0
         THEN EndedAt(elapsed + d, Failure("BlockedHost")) /\ UNCHANGED <<op, left, tried>>
         ELSE /\ op' = "connect"
              /\ left' = n
              /\ tried' = 0
              /\ elapsed' = elapsed + d
              /\ UNCHANGED <<pc, result, waiting>>
    /\ UNCHANGED <<timeoutSec, timeout, hops>>
    /\ TimedFrame

\* one pass of the dial loop (lines 477-484): dialer.DialContext with the
\* next allowed address.  It ends at the earlier of the dialer's Timeout and
\* the context's deadline when the address does not answer; once the
\* deadline has passed every further call fails at once and client.Do
\* returns the timeout.
Attempt ==
    /\ pc = "run" /\ op = "connect" /\ left > 0
    /\ \E out \in {"ok", "refused", "silent"} :
         LET end == IF out = "silent" THEN elapsed + DialerTimeout ELSE elapsed
         IN  /\ tried' = tried + 1
             /\ left' = left - 1
             /\ IF ~Before(end, timeout)
                THEN TimedOut /\ op' = op
                ELSE IF out = "ok"
                THEN /\ op' = "await"
                     /\ elapsed' = end
                     /\ UNCHANGED <<pc, result, waiting>>
                ELSE IF left = 1
                THEN EndedAt(end, Failure("Connect")) /\ op' = op
                ELSE /\ elapsed' = end
                     /\ UNCHANGED <<pc, op, result, waiting>>
    /\ UNCHANGED <<timeoutSec, timeout, hops>>
    /\ TimedFrame

\* the request is written and client.Do waits for the response's header
\* (line 595); the transport sets no time limit of its own on that
Await ==
    /\ pc = "run" /\ op = "await" /\ ~waiting
    /\ \E out \in {"final", "redirect", "status", "error", "silent"}, d \in StepTimes :
         /\ out = "redirect" => hops < MaxTimedHops
         /\ IF out = "silent"
            THEN /\ waiting' = TRUE
                 /\ UNCHANGED <<pc, op, result, elapsed, hops>>
            ELSE IF ~Before(elapsed + d, timeout)
            THEN TimedOut /\ UNCHANGED <<op, hops>>
            ELSE IF out = "error"
            THEN EndedAt(elapsed + d, Failure("Transport")) /\ UNCHANGED <<op, hops>>
            ELSE IF out = "status"
            THEN EndedAt(elapsed + d, [Failure("HTTPStatus") EXCEPT !.code = 404]) /\ UNCHANGED <<op, hops>>
            ELSE /\ op' = IF out = "redirect" THEN "lookup" ELSE "read"
                 /\ hops' = IF out = "redirect" THEN hops + 1 ELSE hops
                 /\ elapsed' = elapsed + d
                 /\ UNCHANGED <<pc, result, waiting>>
    /\ UNCHANGED <<timeoutSec, timeout, left, tried>>
    /\ TimedFrame

\* io.ReadAll of the body (line 605); extraction follows without waiting
TimedRead ==
    /\ pc = "run" /\ op = "read" /\ ~waiting
    /\ \E out \in {"eof", "error", "silent"}, d \in StepTimes :
         IF out = "silent"
         THEN /\ waiting' = TRUE
              /\ UNCHANGED <<pc, result, elapsed>>
         ELSE IF ~Before(elapsed + d, timeout)
         THEN TimedOut
         ELSE IF out = "error"
         THEN EndedAt(elapsed + d, Failure("BodyRead"))
         ELSE EndedAt(elapsed + d, NoResult)
    /\ UNCHANGED <<timeoutSec, timeout, hops, op, left, tried>>
    /\ TimedFrame

\* the client's timer fires (client.Timeout, lines 491-494) while an
\* operation waits: the request's context is cancelled and the operation
\* returns
Deadline ==
    /\ pc = "run" /\ waiting
    /\ HasDeadline(timeout)
    /\ TimedOut
    /\ UNCHANGED <<timeoutSec, timeout, hops, op, left, tried>>
    /\ TimedFrame

NextTimeout == SetTimeout \/ Lookup \/ Attempt \/ Await \/ TimedRead \/ Deadline

\* the runtime keeps running the fetch: a step that can be taken is taken
SpecTimeout == InitTimeout /\ [][NextTimeout]_vars /\ WF_vars(NextTimeout)

(***************************************************************************)
(* The callers of fetchPageContent: the content loop of runSearch (lines   *)
(* 240-253) and runContent (lines 361-397).  A call of fetchPageContent is *)
(* taken whole, by what it can return.                                     *)
(***************************************************************************)
\* errors client.Do can return (line 596): the dialer's, the transport's,
\* CheckRedirect's and the deadline's
ClientErrors == {"DNS", "BlockedHost", "Connect", "Transport", "LocationParse", "TooManyRedirects",
                 "Timeout"} \cup ValidatorErrors

\* what fetchPageContent(client, u, n) can return (lines 581-628) when the
\* pages served are docs and the readability library behaves as in libs
FetchOutcomes(u, n, docs, libs) ==
    IF validateRemoteFetchURL(u) # "none" THEN {Failure(validateRemoteFetchURL(u))}
    ELSE {Failure(k) : k \in ClientErrors \cup {"BodyRead"}}
           \cup {[Failure("HTTPStatus") EXCEPT !.code = c] : c \in {c \in Statuses : statusFailed(c)}}
           \cup {fetchPageContentTail(d, lib, n) : d \in docs, lib \in libs}

\* err.Error(): the message of the error fetchPageContent returned (lines
\* 507-518, 602, 621; errors of client.Do come wrapped in a *url.Error,
\* "Get <url>: <cause>")
ErrorText(f) ==
    CASE f.err = "none" -> <<>>
      [] f.err = "InvalidURL" -> <<"invalid URL: ", "parse">>
      [] f.err = "InvalidScheme" -> <<"invalid URL scheme">>
      [] f.err = "MissingHost" -> <<"invalid URL: missing hostname">>
      [] f.err = "BlockedIP" -> <<"blocked private or local IP address">>
      [] f.err = "HTTPStatus" -> <<"HTTP ", f.code>>
      [] f.err = "Extraction" -> <<"could not extract readable content">>
      [] f.err = "BodyRead" -> <<"read">>
      [] OTHER -> <<"Get ", f.err>>

\* the error dropped: neither field is set for a failed fetch
applyFetchDropError(r, f) ==
    LET t == IF r.title = <<>> /\ f.title # <<>> THEN f.title ELSE r.title
    IN  IF f.err # "none" THEN [r EXCEPT !.title = t]
        ELSE [r EXCEPT !.title = t, !.content = f.content]

\* the body of the content loop (lines 243-251) on result r, f being what
\* fetchPageContent returned for r.link
applyFetch(r, f) ==
    LET t == IF r.title = <<>> /\ f.title # <<>> THEN f.title ELSE r.title
    IN  IF f.err # "none" THEN [r EXCEPT !.title = t, !.contentError = ErrorText(f)]
        ELSE [r EXCEPT !.title = t, !.content = f.content]

\* a searchResult built from an item of the API's answer (lines 225-233)
searchResult(title, link) == [title |-> title, link |-> link, content |-> <<>>, contentError |-> <<>>]

\* results of a search: with and without a title, a public and a blocked link
SearchItems == {searchResult(<<>>, NameURL), searchResult(<<"A">>, NameURL),
                searchResult(<<>>, BlockedURL(<<127, 0, 0, 1>>))}
\* pages and library outcomes of the search's fetches
SearchDocs == {BenignDoc, ScriptOnlyDoc}
SearchLibs == {lib \in ReadabilityOutcomes :
                 \/ lib.parseErr
                 \/ ~lib.urlErr /\ ~lib.renderErr /\ lib.title # <<>> /\ TrimSpace(lib.text) # <<>>}

\* search --content after fetchSearch has answered and out.Results is built
\* (lines 206-238); maxContentChars is clamped on lines 209-211
InitSearch ==
    /\ pc = "loop"
    /\ target = MalformedURL /\ req = MalformedURL /\ via = <<>> /\ hops = 0 /\ sends = 0
    /\ dial = NoDial /\ resp = NoResp /\ net = NoNet /\ body = <<>> /\ bodyLen = 0 /\ rd = NoRd
    /\ result = NoResult
    /\ maxCharsFlag \in {0 - 1, MaxCharsArg}
    /\ maxChars = clampMaxChars(maxCharsFlag)
    /\ polIp = nil /\ polOut = FALSE /\ polDone = FALSE
    /\ TruncDefaults
    /\ EnvDefaults
    /\ timeoutSec = Int64Of(DefaultSearchTimeout)
    /\ timeout = Duration(Int64Of(DefaultSearchTimeout))
    /\ elapsed = 0 /\ op = "none" /\ left = 0 /\ tried = 0 /\ waiting = FALSE
    /\ data \in SeqsUpTo(SearchItems, MaxResults)
    /\ results = data
    /\ ri = 1
    /\ calls = <<>>
    /\ CmdDefaults

\* one pass of the loop (lines 242-252): the page of result ri is fetched
\* and the result updated
ContentLoop ==
    /\ pc = "loop"
    /\ ri <= Len(results)
    /\ \E f \in FetchOutcomes(results[ri].link, maxChars, SearchDocs, SearchLibs) :
         /\ result' = f
         /\ results' = [results EXCEPT ![ri] = applyFetch(results[ri], f)]
    /\ calls' = Append(calls, results[ri].link)
    /\ ri' = ri + 1
    /\ UNCHANGED <<pc, target, req, via, hops, sends, dial, resp, net, body, bodyLen, rd, maxChars,
                   maxCharsFlag, data, polVars, truncVars, envVars, timeVars, cmdVars>>

\* the loop is over and the output is written (lines 255-257)
LoopEnd ==
    /\ pc = "loop"
    /\ ri > Len(results)
    /\ pc' = "done"
    /\ UNCHANGED <<target, req, via, hops, sends, dial, resp, net, body, bodyLen, rd, maxChars, result,
                   maxCharsFlag, pureVars>>

SpecSearch == InitSearch /\ [][ContentLoop \/ LoopEnd]_vars

\* json.Encoder.Encode with every field written, empty or not
writeJSONNoOmit(o) == [k \in {"url", "title", "content", "error"} |-> o[k]]

\* writeJSON of a contentOutput (lines 75-80, 704-708): url is always
\* written, the fields tagged omitempty only when not empty
writeJSON(o) == [k \in {"url"} \cup {k \in {"title", "content", "error"} : o[k] # <<>>} |-> o[k]]

\* the contentOutput of lines 377-384
contentOutput(u, f) == [url |-> u, title |-> f.title, content |-> f.content, error |-> ErrorText(f)]

\* what the text mode prints for a fetched page (lines 391-394)
TextOutput(f) == (IF f.title # <<>> THEN <<<<"# ">> \o f.title, <<>>>> ELSE <<>>) \o <<f.content>>

\* the content command with its flags and URL argument parsed
InitContent ==
    /\ pc = "cmd"
    /\ target \in TargetURLs
    /\ req = MalformedURL /\ via = <<>> /\ hops = 0 /\ sends = 0
    /\ dial = NoDial /\ resp = NoResp /\ net = NoNet /\ body = <<>> /\ bodyLen = 0 /\ rd = NoRd
    /\ result = NoResult
    /\ maxCharsFlag \in MaxCharsFlags
    /\ maxChars = 0
    /\ polIp = nil /\ polOut = FALSE /\ polDone = FALSE
    /\ TruncDefaults
    /\ EnvDefaults
    /\ timeoutSec = Int64Of(DefaultContentTimeout)
    /\ timeout = Duration(Int64Of(DefaultContentTimeout))
    /\ elapsed = 0 /\ op = "none" /\ left = 0 /\ tried = 0 /\ waiting = FALSE
    /\ data = <<>> /\ results = <<>> /\ ri = 1 /\ calls = <<>>
    /\ jsonOut \in BOOLEAN
    /\ emitted = <<>> /\ printed = <<>> /\ cmdErr = <<>>

\* runContent from the validation of its argument on (lines 361-397)
runContent ==
    /\ pc = "cmd"
    /\ pc' = "done"
    /\ maxChars' = clampMaxChars(maxCharsFlag)
    /\ IF validateRemoteFetchURL(target) # "none"
       THEN /\ cmdErr' = ErrorText(Failure(validateRemoteFetchURL(target)))
            /\ UNCHANGED <<result, calls, emitted, printed>>
       ELSE \E f \in FetchOutcomes(target, clampMaxChars(maxCharsFlag), SampleDocs, ReadabilityOutcomes) :
              /\ result' = f
              /\ calls' = <<target>>
              /\ IF jsonOut
                 THEN /\ emitted' = <<writeJSON(contentOutput(target, f))>>
                      /\ UNCHANGED <<printed, cmdErr>>
                 ELSE IF f.err # "none"
                 THEN /\ cmdErr' = ErrorText(f)
                      /\ UNCHANGED <<emitted, printed>>
                 ELSE /\ printed' = TextOutput(f)
                      /\ UNCHANGED <<emitted, cmdErr>>
    /\ UNCHANGED <<target, req, via, hops, sends, dial, resp, net, body, bodyLen, rd, maxCharsFlag,
                   polVars, truncVars, envVars, timeVars, data, results, ri, jsonOut>>

SpecContent == InitContent /\ [][runContent]_vars

(***************************************************************************)
(* The block policy alone, over PolicyInputs.                              *)
(***************************************************************************)
InitPolicy ==
    /\ pc = "policy"
    /\ TypeDefaults
    /\ polIp \in PolicyInputs
    /\ polOut = FALSE
    /\ polDone = FALSE
    /\ TruncDefaults
    /\ EnvDefaults
    /\ TimeDefaults

Classify ==
    /\ pc = "policy"
    /\ ~polDone
    /\ polOut' = isBlockedIP(polIp)
    /\ polDone' = TRUE
    /\ UNCHANGED <<polIp, fetchVars, truncVars, envVars, timeVars, searchVars, cmdVars>>

SpecPolicy == InitPolicy /\ [][Classify]_vars

(***************************************************************************)
(* Extraction alone, over every document of Docs.                          *)
(***************************************************************************)
InitExtract ==
    /\ pc = "body"
    /\ target = NameURL
    /\ req = NameURL
    /\ via = <<>>
    /\ hops = 0
    /\ sends = 1
    /\ dial = NoDial
    /\ \E d \in Docs :
         /\ resp = [status |-> 200, hasLoc |-> FALSE, loc |-> MalformedURL,
                     body |-> [doc |-> d, pad |-> 0], contentLength |-> 0 - 1]
         /\ body = d
         /\ bodyLen = ByteLen(d)
    /\ net = [lookup |-> TRUE, dial |-> TRUE, request |-> TRUE]
    /\ rd = NoRd
    /\ maxChars = 0
    /\ result = NoResult
    /\ maxCharsFlag = 0
    /\ polIp = nil /\ polOut = FALSE /\ polDone = FALSE
    /\ TruncDefaults
    /\ EnvDefaults
    /\ TimeDefaults

SpecExtract == InitExtract /\ [][Extract]_vars

(***************************************************************************)
(* The body read alone, over bodies around the ceiling.                    *)
(***************************************************************************)
\* lengths of padding that put the end of the body at, just under, just
\* over and far over the ceiling
Pads(d) == {0, MaxBodyBytes - ByteLen(d) - 1, MaxBodyBytes - ByteLen(d),
            MaxBodyBytes - ByteLen(d) + 1, MaxBodyBytes, 2 * MaxBodyBytes}
\* declared lengths: none, the true one, one too many, one too few
Declared(st) == {0 - 1, StreamLen(st) - 1, StreamLen(st), StreamLen(st) + 1}

InitBody ==
    /\ pc = "resp"
    /\ target = NameURL
    /\ req = NameURL
    /\ via = <<NameURL>>
    /\ hops = 0
    /\ sends = 1
    /\ dial = NoDial
    /\ \E d \in SampleDocs : \E p \in Pads(d) : \E c \in Declared([doc |-> d, pad |-> p]) :
         resp = [status |-> 200, hasLoc |-> FALSE, loc |-> MalformedURL,
                 body |-> [doc |-> d, pad |-> p], contentLength |-> c]
    /\ net = [lookup |-> TRUE, dial |-> TRUE, request |-> TRUE]
    /\ body = <<>>
    /\ bodyLen = 0
    /\ rd = NoRd
    /\ maxChars = 0
    /\ result = NoResult
    /\ maxCharsFlag = 0
    /\ polIp = nil /\ polOut = FALSE /\ polDone = FALSE
    /\ TruncDefaults
    /\ EnvDefaults
    /\ TimeDefaults

SpecBody == InitBody /\ [][ReadBody]_vars

(***************************************************************************)
(* truncateRunes alone, over every text of Texts and every limit.          *)
(***************************************************************************)
\* bytes of the texts: an ASCII letter, the two bytes of U+00E9, an invalid byte
TextBytes == {"a", "\\xc3", "\\xa9", "\\xff"}
Texts == SeqsUpTo(TextBytes, MaxTextLen)
Limits == (0 - 1)..(MaxCharsArg + 1)

InitTruncate ==
    /\ pc = "truncate"
    /\ TypeDefaults
    /\ polIp = nil /\ polOut = FALSE /\ polDone = FALSE
    /\ EnvDefaults
    /\ TimeDefaults
    /\ trS \in Texts
    /\ trLimit \in Limits
    /\ trOut = <<>>
    /\ trDone = FALSE

Truncate ==
    /\ pc = "truncate"
    /\ ~trDone
    /\ trOut' = truncateRunes(trS, trLimit)
    /\ trDone' = TRUE
    /\ UNCHANGED <<trS, trLimit, fetchVars, polVars, envVars, timeVars, searchVars, cmdVars>>

SpecTruncate == InitTruncate /\ [][Truncate]_vars

(***************************************************************************)
(* Properties.                                                             *)
(***************************************************************************)
\* the rejection the URL validator owes a URL, read off its contract: malformed,
\* scheme other than http/https, missing host, literal IP in a blocked range
QuadOf(ip) ==
    IF Len(ip) = 4 THEN ip
    ELSE IF Len(ip) = 16 /\ (\A i \in 1..10 : ip[i] = 0) /\ ip[11] = 255 /\ ip[12] = 255
         THEN <<ip[13], ip[14], ip[15], ip[16]>>
    ELSE <<>>

\* the block policy as address ranges: 0.0.0.0/8, 10.0.0.0/8, 100.64.0.0/10,
\* 127.0.0.0/8, 169.254.0.0/16, 172.16.0.0/12, 192.168.0.0/16, 224.0.0.0 and
\* up; ::, ::1, fc00::/7, fe80::/10, ff00::/8; nil
RangeBlocked(ip) ==
    IF ip = <<>> THEN TRUE
    ELSE IF QuadOf(ip) # <<>>
    THEN LET hi == QuadOf(ip)[1] * 256 + QuadOf(ip)[2]
         IN  \/ hi <= 255
             \/ hi \in 2560..2815
             \/ hi \in 25664..25727
             \/ hi \in 32512..32767
             \/ hi = 43518
             \/ hi \in 44048..44063
             \/ hi = 49320
             \/ hi >= 57344
    ELSE LET hi == ip[1] * 256 + ip[2]
         IN  \/ \A i \in 1..16 : ip[i] = 0
             \/ (\A i \in 1..15 : ip[i] = 0) /\ ip[16] = 1
             \/ hi \in 64512..65023
             \/ hi \in 65152..65215
             \/ hi >= 65280

ExpectedRejection(u) ==
    IF ~u.wf THEN "InvalidURL"
    ELSE IF u.scheme \notin {"http", "https"} THEN "InvalidScheme"
    ELSE IF u.name = "" /\ u.lit = <<>> THEN "MissingHost"
    ELSE IF u.lit # <<>> /\ RangeBlocked(u.lit) THEN "BlockedIP"
    ELSE "none"

InFlight == pc \in {"send", "resend", "connected", "resp"}

\* a text every byte of which belongs to a complete UTF-8 encoding: no lead
\* byte without its continuation bytes, no stray continuation or invalid byte
RECURSIVE WellFormed(_)
WellFormed(t) ==
    IF t = <<>> THEN TRUE
    ELSE IF t[1] \in Lead2
    THEN Len(t) >= 2 /\ t[2] \in Cont /\ WellFormed(SubSeq(t, 3, Len(t)))
    ELSE IF t[1] \in Lead3
    THEN Len(t) >= 3 /\ t[2] \in Cont /\ t[3] \in Cont /\ WellFormed(SubSeq(t, 4, Len(t)))
    ELSE t[1] \notin Cont \cup BadBytes /\ WellFormed(Tail(t))

\* C1: every connect attempt of the pinned dialer, on the first hop and after
\* any redirects, targets an address the block policy allows.
C1_DialsOnlyAllowed ==
    \A i \in 1..Len(dial.attempts) : ~isBlockedIP(DialTarget(dial.attempts[i]))

\* C1 witness: after a redirect, a lookup returned a blocked and an allowed
\* address and the dialer connected to the allowed one.
C1_Witness ==
    /\ hops >= 1
    /\ pc = "connected"
    /\ dial.answer = <<PrivateV4, PublicV6>>
    /\ dial.attempts = <<IPString(PublicV6)>>

\* C2: a lookup that succeeds with blocked addresses only ends the fetch with
\* the all-candidates-blocked error and without a single connect attempt.
C2_AllBlockedNoDial ==
    (dial.lookup /\ dial.answer # <<>> /\ \A i \in 1..Len(dial.answer) : RangeBlocked(dial.answer[i]))
        => /\ dial.attempts = <<>>
           /\ dial.conn = nil
           /\ dial.err = "BlockedHost"
           /\ pc = "done"
           /\ result = Failure("BlockedHost")

\* C2 witness: a two-address answer, both blocked, was refused.
C2_Witness ==
    /\ dial.answer = <<MappedLoopback, PrivateV4>>
    /\ result.err = "BlockedHost"
    /\ ~net.dial

\* C3: a target the validator rejects makes fetchPageContent return the
\* validator's error before any DNS lookup, connect attempt or HTTP request.
C3_RejectBeforeNetwork ==
    (pc # "idle" /\ ExpectedRejection(target) # "none")
        => /\ pc = "done"
           /\ result = Failure(ExpectedRejection(target))
           /\ net = NoNet
           /\ dial = NoDial
           /\ via = <<>>

\* C3 witness: the literal 100.64.0.5 was rejected with the network untouched.
C3_Witness ==
    /\ pc = "done"
    /\ target = BlockedURL(<<100, 64, 0, 5>>)
    /\ result.err = "BlockedIP"
    /\ net = NoNet

\* C4 (as claimed): a redirect to a valid, unblocked target is refused only
\* once 10 redirects have been followed, so a chain of exactly 10 redirects is
\* fetched and the 11th redirect fails.
C4_RefusedOnlyAfterTenHops ==
    (pc = "done" /\ IsRedirect(resp) /\ ExpectedRejection(resp.loc) = "none")
        => result.err = "TooManyRedirects" /\ hops = 10

\* C5 (as claimed): a redirect to a URL the validator rejects fails with the
\* validator's error at every hop position.
C5_ValidatorErrorAtEveryHop ==
    (pc = "done" /\ IsRedirect(resp) /\ resp.loc.wf /\ ExpectedRejection(resp.loc) # "none")
        => result.err = ExpectedRejection(resp.loc)

\* C5 (amended): a redirect to a URL the validator rejects fails with the
\* validator's error when fewer than 10 requests have been made, and with the
\* redirect-count error when 10 have; a rejected target is never requested.
C5_ValidatorErrorWithinLimit ==
    /\ (pc = "done" /\ IsRedirect(resp) /\ resp.loc.wf /\ ExpectedRejection(resp.loc) # "none")
         => result.err = IF hops + 1 < MaxVia THEN ExpectedRejection(resp.loc) ELSE "TooManyRedirects"
    /\ (InFlight /\ hops > 0) => ExpectedRejection(req) = "none"

\* C5 witness: the third redirect of a fetch of a public host pointed to
\* 10.0.0.5 and the fetch failed as blocked.
C5_Witness ==
    /\ pc = "done"
    /\ hops = 2
    /\ resp.loc = BlockedURL(<<10, 0, 0, 5>>)
    /\ result.err = "BlockedIP"

\* C6: the redirect chain never holds more than 11 URLs, and every URL in it,
\* like the request being sent, passed the validator.
C6_ChainValidated ==
    /\ Len(via) <= 11
    /\ \A i \in 1..Len(via) : ExpectedRejection(via[i]) = "none"
    /\ InFlight => ExpectedRejection(req) = "none"

\* C6 witness: the chain at its longest, ending in a redirect target.
C6_Witness ==
    /\ pc = "resp"
    /\ Len(via) = MaxVia
    /\ via[1] = NameURL
    /\ via[MaxVia] = LiteralURL

\* C7: isBlockedIP answers true exactly for nil and the addresses of the
\* blocked ranges; 100.63.255.255, 100.128.0.0, 1.0.0.0 and 223.255.255.255
\* are allowed.
C7_PolicyRanges ==
    polDone =>
        /\ polOut = RangeBlocked(polIp)
        /\ polIp \in {<<100, 63, 255, 255>>, <<100, 128, 0, 0>>, <<1, 0, 0, 0>>, <<223, 255, 255, 255>>}
             => ~polOut

\* C7 witness: the last address of 100.64.0.0/10, IPv4-mapped, was classified blocked.
C7_Witness ==
    /\ polDone
    /\ polIp = <<0, 0, 0, 0, 0, 0, 0, 0, 0, 0, 255, 255, 100, 127, 255, 255>>
    /\ polOut

\* C8: a well-formed http/https target whose host is a name is accepted by the
\* validator without a lookup, whatever the name resolves to; a name is
\* refused only by the dialer, after resolving it.
C8_NamesPassValidation ==
    /\ (pc # "idle" /\ target.wf /\ target.scheme \in {"http", "https"} /\ target.name # "")
         => ~(pc = "done" /\ net = NoNet)
    /\ (pc = "send" /\ hops = 0) => net = NoNet
    /\ (pc = "done" /\ result.err = "BlockedHost") => dial.lookup

\* C8 witness: a name that resolves to loopback only passed validation and was
\* refused at dial time.
C8_Witness ==
    /\ pc = "done"
    /\ target = NameURL
    /\ hops = 0
    /\ dial.answer = <<MappedLoopback>>
    /\ result.err = "BlockedHost"

\* C9 (as claimed): fetchPageContent returns non-empty content without an
\* error, or an error with empty title and empty content.
C9_ErrorCarriesNothing ==
    pc = "done" =>
        \/ result.err = "none" /\ result.content # <<>>
        \/ result.err # "none" /\ result.title = <<>> /\ result.content = <<>>

\* C9 (amended): fetchPageContent returns non-empty content without an error,
\* or an error with empty content; the title is empty with every error but the
\* extraction failure, which carries the extracted title.
C9_ErrorCarriesNoContent ==
    pc = "done" =>
        \/ result.err = "none" /\ TrimSpace(result.content) # <<>>
        \/ /\ result.err # "none"
           /\ result.content = <<>>
           /\ result.title # <<>> => result.err = "Extraction"

\* C9 witness: an extraction failure returned together with a title.
C9_Witness ==
    /\ pc = "done"
    /\ result.err = "Extraction"
    /\ result.title = <<"I">>
    /\ body = SvgTitleDoc

\* C10: when the readability strategy and the fallback both yield no content,
\* fetchPageContent returns the extraction failure with empty content and
\* truncateRunes is not called.
C10_EmptyIsFailure ==
    (/\ pc = "done"
     /\ rd.parseErr \/ rd.renderErr \/ TrimSpace(rd.text) = <<>>
     /\ TrimSpace(extractReadableText(body)) = <<>>)
        => /\ result.err = "Extraction"
           /\ result.content = <<>>
           /\ ~result.truncated

\* C10 witness: a document of script and whitespace only, a positive limit.
C10_Witness ==
    /\ pc = "done"
    /\ body = ScriptOnlyDoc
    /\ rd.text = <<" ", "\n">>
    /\ ~rd.parseErr /\ ~rd.renderErr
    /\ maxChars = 2
    /\ result.err = "Extraction"

\* C11 (as claimed): truncateRunes with a limit of 0 returns its input unchanged.
C11_ZeroLimitIsIdentity ==
    (trDone /\ trLimit = 0) => trOut = trS

\* C11 (amended): truncateRunes with a limit of 0 returns the empty text
\* whatever the input is.
C11_ZeroLimitIsEmpty ==
    (trDone /\ trLimit = 0) => trOut = <<>>

\* C11 witness: a non-empty text was truncated with limit 0.
C11_Witness ==
    /\ trDone
    /\ trLimit = 0
    /\ trS = <<"a", "\\xc3", "\\xa9">>
    /\ trOut = <<>>

\* C12: for a positive limit truncateRunes returns the first
\* min(limit, number of code points) code points of the text: exactly limit
\* code points when the text has that many, the text itself when it is not
\* longer, a byte prefix of a well-formed text, and never a text that ends
\* inside a multi-byte character.
C12_FirstCodePoints ==
    (trDone /\ trLimit > 0) =>
        LET n == Len(Runes(trS))
            k == IF n <= trLimit THEN n ELSE trLimit
        IN  /\ Runes(trOut) = SubSeq(Runes(trS), 1, k)
            /\ n <= trLimit => trOut = trS
            /\ n > trLimit => /\ WellFormed(trOut)
                              /\ Len(Runes(trOut)) = trLimit
            /\ WellFormed(trS) => trOut = SubSeq(trS, 1, Len(trOut))

\* C12 witness: a text of three code points, the second of two bytes, cut to two.
C12_Witness ==
    /\ trDone
    /\ trLimit = 2
    /\ trS = <<"a", "\\xc3", "\\xa9", "a">>
    /\ trOut = <<"a", "\\xc3", "\\xa9">>

\* the content the extraction strategies yield before any truncation: the
\* readability text when the library produced one, else the fallback's text
Extracted ==
    IF ~rd.parseErr /\ ~rd.renderErr /\ TrimSpace(rd.text) # <<>>
    THEN TrimSpace(rd.text)
    ELSE extractReadableText(body)

\* C13: a flag of 0 or below reaches fetchPageContent as maxChars = 0, and a
\* successful fetch then returns the extracted content whole, untruncated and
\* not empty.
C13_NoLimit ==
    (pc = "done" /\ result.err = "none" /\ maxCharsFlag <= 0) =>
        /\ maxChars = 0
        /\ ~result.truncated
        /\ result.content = Extracted
        /\ result.content # <<>>

\* C13 witness: a flag of -1, and content of four characters returned whole.
C13_Witness ==
    /\ pc = "done"
    /\ maxCharsFlag = 0 - 1
    /\ maxChars = 0
    /\ result.err = "none"
    /\ Len(result.content) > MaxCharsArg

\* C14: a final response with a status outside 200..299 makes fetchPageContent
\* fail with the status error carrying that status, with no body read and no
\* extraction; a final response with a status inside 200..299 goes on to the
\* body read and the extraction.
C14_StatusDecides ==
    /\ (pc \in {"body", "done"} /\ resp.status # 0 /\ ~IsRedirect(resp)
          /\ (resp.status < 200 \/ resp.status > 299))
         => /\ pc = "done"
            /\ result = [Failure("HTTPStatus") EXCEPT !.code = resp.status]
            /\ body = <<>>
            /\ rd = NoRd
    /\ (pc \in {"body", "done"} /\ resp.status \in 200..299)
         => /\ result.err \in {"none", "BodyRead", "Extraction"}
            /\ result.code = 0

\* C14 witness: a 300 without a Location header ended the fetch as "HTTP 300".
C14_Witness ==
    /\ pc = "done"
    /\ resp.status = 300
    /\ result.err = "HTTPStatus"
    /\ result.code = 300
    /\ body = <<>>

\* the bytes of a document, one by one
RECURSIVE Bytes(_)
Bytes(doc) == IF doc = <<>> THEN <<>> ELSE Spelling(doc[1]) \o Bytes(Tail(doc))

\* C15: the body read returns the first min(length of the response body,
\* 8 MiB) bytes of the body, never more than 8 MiB, whatever length the
\* response declares.
C15_ReadCapped ==
    pc = "body" =>
        LET sent == resp.body.pad + ByteLen(resp.body.doc)
            avail == IF resp.contentLength >= 0 /\ resp.contentLength < sent
                     THEN resp.contentLength ELSE sent
            want == IF avail < 8 * 1048576 THEN avail ELSE 8 * 1048576
        IN  /\ bodyLen = want
            /\ bodyLen <= 8 * 1048576
            /\ want >= ByteLen(resp.body.doc)
                 => body = resp.body.doc \o (IF want > ByteLen(resp.body.doc) THEN <<" ">> ELSE <<>>)
            /\ want < ByteLen(resp.body.doc)
                 => Bytes(body) = SubSeq(Bytes(resp.body.doc), 1, want)

\* C15 witness: a body of 16 MiB and more, declared as such, of which
\* exactly 8 MiB were read.
C15_Witness ==
    /\ pc = "body"
    /\ resp.body.pad = 2 * MaxBodyBytes
    /\ resp.contentLength = StreamLen(resp.body)
    /\ resp.body.doc = BenignDoc
    /\ bodyLen = MaxBodyBytes

\* the requests of the chain before the one in hand that went to its scheme and host
SameHostBefore ==
    {i \in 1..(Len(via) - 1) :
        via[i].scheme = req.scheme /\ via[i].name = req.name /\ via[i].lit = req.lit}

AllowedAnswers ==
    LET keep == SelectSeq(dial.answer, LAMBDA ip : ~RangeBlocked(ip))
    IN  [i \in 1..Len(keep) |-> IF QuadOf(keep[i]) # <<>> THEN QuadOf(keep[i]) ELSE keep[i]]

C20_LastErrorReturned ==
    /\ (dial.lookup /\ AllowedAnswers # <<>> /\ \A i \in 1..Len(dial.outcomes) : ~dial.outcomes[i])
         => /\ dial.attempts = AllowedAnswers
            /\ dial.conn = nil
            /\ dial.err = "Connect"
            /\ dial.errAt = AllowedAnswers[Len(AllowedAnswers)]
            /\ pc = "done"
            /\ result = Failure("Connect")
    /\ (dial.lookup /\ dial.answer = <<>>)
         => /\ dial.err = "DNS"
            /\ dial.attempts = <<>>
            /\ pc = "done"
            /\ result = Failure("DNS")

\* C20 witness: two allowed addresses both refused the connection and the
\* error is the second one's.
C20_Witness ==
    /\ pc = "done"
    /\ dial.answer = <<PublicV6, PublicV4>>
    /\ dial.outcomes = <<FALSE, FALSE>>
    /\ dial.errAt = PublicV4
    /\ result.err = "Connect"

\* C17: whatever HTTP_PROXY and HTTPS_PROXY are, the content client's dialer
\* is called with the host of the request in hand, never a proxy's; it looks
\* up a name and not a literal, and every address it tries is an allowed
\* address of that host.  The API client connects to the proxy the
\* environment names for https, and to the search host when it names none.
C17_ProxyIgnoredByContentFetch ==
    /\ dial # NoDial =>
          /\ dial.host = Hostname(req)
          /\ dial.lookup <=> req.name # ""
          /\ \A i \in 1..Len(dial.attempts) :
                /\ ~RangeBlocked(dial.attempts[i])
                /\ req.name = "" => To16(dial.attempts[i]) = To16(req.lit)
                /\ req.name # "" => \E j \in 1..Len(AllowedAnswers) : dial.attempts[i] = AllowedAnswers[j]
    /\ apiDial # NoHost =>
          apiDial = IF proxyEnv.https # NoHost THEN proxyEnv.https ELSE Hostname(kagiSearchURL)

\* C17 witness: with both proxy variables naming a proxy, the search request
\* went to the proxy and the page fetch, after one redirect, connected to
\* the public address its own host resolved to.
C17_Witness ==
    /\ proxyEnv = [http |-> NamedProxy, https |-> NamedProxy]
    /\ apiDial = NamedProxy
    /\ pc = "connected"
    /\ hops = 1
    /\ req = NameURL
    /\ dial.host = Hostname(NameURL)
    /\ dial.answer = <<PublicV4>>
    /\ dial.conn = PublicV4

\* what the readability strategy yields for each field, from the library's
\* outcome: nothing after a failure that comes before the field is set
ReadabilityTitle == IF rd.urlErr \/ rd.parseErr THEN <<>> ELSE cleanLine(rd.title)
ReadabilityContent == IF rd.urlErr \/ rd.parseErr \/ rd.renderErr THEN <<>> ELSE TrimSpace(rd.text)

C22_StrategyFailureSwallowed ==
    pc = "done" =>
        /\ result.err \in {"none", "Extraction"}
        /\ (rd.urlErr \/ rd.parseErr \/ rd.renderErr) =>
              /\ result.err = "Extraction" <=> TrimSpace(extractReadableText(body)) = <<>>
              /\ result.err = "none" =>
                    result.content = IF maxChars > 0
                                     THEN truncateRunes(extractReadableText(body), maxChars)
                                     ELSE extractReadableText(body)
        /\ result.err = "Extraction" =>
              /\ ReadabilityContent = <<>>
              /\ TrimSpace(extractReadableText(body)) = <<>>

\* C22 witness: RenderText failed after writing some text; the text is
\* dropped and the benign document's fallback text is returned.
C22_Witness ==
    /\ pc = "done"
    /\ body = BenignDoc
    /\ rd.renderErr
    /\ rd.text = <<" ", "b">>
    /\ maxChars = 0
    /\ result.err = "none"
    /\ result.content = extractReadableText(BenignDoc)
    /\ result.content # <<>>

\* C23 (as claimed): whatever the configured timeout, when the first allowed
\* address of a lookup does not answer and another allowed address is left,
\* the fetch does not end there by the overall deadline: the next address
\* gets its attempt.
C23_HangLeavesTimeForNext ==
    ~(/\ pc = "done"
      /\ op = "connect"
      /\ tried = 1
      /\ left >= 1
      /\ result.err = "Timeout")

\* C24 (as claimed): the client always has a deadline once it is built, and
\* every fetch returns.
C24_EveryFetchReturns ==
    /\ [](pc = "run" => HasDeadline(timeout))
    /\ <>(pc = "done")

\* C25: the content loop calls fetchPageContent for the links of the results
\* in result order, one call per result whatever the earlier calls returned;
\* the results keep their number, order and links; a result the loop has
\* passed has exactly one of Content and ContentError non-empty, and a result
\* it has not reached has neither.
C25_OneOutcomePerResult ==
    /\ Len(results) = Len(data)
    /\ \A j \in 1..Len(results) : results[j].link = data[j].link
    /\ calls = [j \in 1..(ri - 1) |-> data[j].link]
    /\ pc = "done" => ri = Len(data) + 1
    /\ \A j \in 1..Len(results) :
          IF j < ri
          THEN (results[j].content # <<>>) # (results[j].contentError # <<>>)
          ELSE results[j] = data[j]

\* C25 witness: the first page failed on a blocked address, the second was
\* fetched all the same and has content.
C25_Witness ==
    /\ pc = "done"
    /\ Len(results) = 2
    /\ results[1].contentError = <<"blocked private or local IP address">>
    /\ results[1].content = <<>>
    /\ results[2].content # <<>>
    /\ results[2].contentError = <<>>
    /\ calls = <<BlockedURL(<<127, 0, 0, 1>>), NameURL>>

=============================================================================
